---- MODULE Spec2Model ----
(***************************************************************************)
(* AliExpressLiveScraper (src/live_aliexpress_scraper.py): the record      *)
(* assembler _extract_all_data, its field extractors and the life cycle of *)
(* the scraper object that calls them.                                     *)
(*                                                                         *)
(* Representation.  A Python str is a sequence of symbols.  A symbol is    *)
(* one character ("9", "$", " ") or a literal word that the source's       *)
(* patterns treat as a unit ("/item/", ".html", "sold"); every occurrence  *)
(* of such a word in a modelled input is one symbol.  A Python value is a  *)
(* tagged record [kind, val]; a dict is a function from keys to values.    *)
(* A parsed page (BeautifulSoup) is the sequence of its elements in        *)
(* document order, each with the index of its parent element (0: none).    *)
(***************************************************************************)
EXTENDS Integers, Sequences, FiniteSets, TLC

VARIABLES
    driver,         \* self.driver: the browser (open or quit) and the URL it shows
    product_data,   \* self.product_data
    earlier_data,   \* the record of the completed scrape before that one, as its caller kept it
    returned,       \* what the last call on the scraper gave its caller
    printed,        \* the last line the scraper printed
    site,           \* the web site: the document it serves, where it redirects
    clock,          \* the number of scrape_product calls so far (the time)
    number_text,    \* AliExpressDataAnalyzer: the text given to _extract_number_from_text
    number,         \* what _extract_number_from_text returned for it
    files,          \* the files written: name to content
    batch,          \* the BatchScraper: its fields, and the locals of its scrape_batch call
    products,       \* AliExpressDataAnalyzer: self.products
    analysis        \* what the last analyze_ call of the analyzer gave its caller

vars == <<driver, product_data, earlier_data, returned, printed, site, clock, number_text, number, files, batch, products, analysis>>

---------------------------------------------------------------------------
(* Python values                                                           *)

EmptyMap == [x \in {} |-> x]

Put(m, k, v) == [x \in (DOMAIN m) \cup {k} |-> IF x = k THEN v ELSE m[x]]

\* if cond: m[k] = v
PutIf(cond, m, k, v) == IF cond THEN Put(m, k, v) ELSE m

\* dict.update(other)
Update(m, other) ==
    [x \in (DOMAIN m) \cup (DOMAIN other) |-> IF x \in DOMAIN other THEN other[x] ELSE m[x]]

PyStr(s) == [kind |-> "str", val |-> s]

PyInt(n) == [kind |-> "int", val |-> n]

\* a float: its sign, its integral part and the digits after the decimal point
PyFloat(neg, whole, frac) == [kind |-> "float", val |-> <<neg, whole, frac>>]

PyBool(b) == [kind |-> "bool", val |-> b]

PyDict(m) == [kind |-> "dict", val |-> m]

PyList(l) == [kind |-> "list", val |-> l]

---------------------------------------------------------------------------
(* str operations                                                          *)

Digits == {"0", "1", "2", "3", "4", "5", "6", "7", "8", "9"}

Whitespace == {" ", "\n", "\t"}

UpperLetters == {"A", "B", "C", "D", "E", "F", "G", "H", "I", "J", "K", "L", "M",
                 "N", "O", "P", "Q", "R", "S", "T", "U", "V", "W", "X", "Y", "Z"}

CurrencySymbols == {"EUR_SIGN", "$", "GBP_SIGN", "YEN_SIGN", "INR_SIGN", "RUB_SIGN"}

DigitVal(c) ==
    CASE c = "0" -> 0 [] c = "1" -> 1 [] c = "2" -> 2 [] c = "3" -> 3 [] c = "4" -> 4
      [] c = "5" -> 5 [] c = "6" -> 6 [] c = "7" -> 7 [] c = "8" -> 8 [] c = "9" -> 9

RECURSIVE DigitsVal(_)
\* the number a non-empty run of decimal digits denotes
DigitsVal(ds) ==
    IF ds = <<>> THEN 0
    ELSE 10 * DigitsVal(SubSeq(ds, 1, Len(ds) - 1)) + DigitVal(ds[Len(ds)])

RECURSIVE LStrip(_)
LStrip(s) == IF s # <<>> /\ Head(s) \in Whitespace THEN LStrip(Tail(s)) ELSE s

RECURSIVE RStrip(_)
RStrip(s) ==
    IF s # <<>> /\ s[Len(s)] \in Whitespace THEN RStrip(SubSeq(s, 1, Len(s) - 1)) ELSE s

\* str.strip()
Strip(s) == RStrip(LStrip(s))

\* sub in s
Contains(s, sub) ==
    \E i \in 1..(Len(s) - Len(sub) + 1) : SubSeq(s, i, i + Len(sub) - 1) = sub

\* str.replace(sym, ''), for a one-symbol pattern
RemoveSym(s, sym) == SelectSeq(s, LAMBDA c : c # sym)

---------------------------------------------------------------------------
(* re: a pattern is a sequence of items, each a character class with a    *)
(* repetition range, matched by backtracking in the priority order of the  *)
(* re module (greedy: longest first; lazy: shortest first).                *)

\* max = Unbounded: no upper limit on the repetition
Unbounded == -1

\* one item: symbols of `set` (or, negated, any symbol outside it), min..max times
Item(set, neg, min, max, lazy) ==
    [set |-> set, neg |-> neg, min |-> min, max |-> max, lazy |-> lazy, wb |-> FALSE]

\* \b: the empty string at the start or end of a word
WordBoundary ==
    [set |-> {}, neg |-> FALSE, min |-> 0, max |-> 0, lazy |-> FALSE, wb |-> TRUE]

\* symbols whose first character is not a word character (\W)
NonWordStart ==
    {" ", "\n", "\t", "$", ".", ",", ":", ";", "-", "+", "/", "=", "%", "\"", "'",
     "[", "]", "{", "}", "(", ")", "/item/", ".html", "/store/",
     "EUR_SIGN", "GBP_SIGN", "YEN_SIGN", "INR_SIGN", "RUB_SIGN"}

\* symbols whose last character is not a word character
NonWordEnd == NonWordStart \ {".html"}

\* is position pos of s (between s[pos-1] and s[pos]) a word boundary
AtBoundary(s, pos) ==
    LET before == pos > 1 /\ s[pos - 1] \notin NonWordEnd
        after  == pos <= Len(s) /\ s[pos] \notin NonWordStart
    IN  before # after

One(set) == Item(set, FALSE, 1, 1, FALSE)

Opt(set) == Item(set, FALSE, 0, 1, FALSE)

Plus(set) == Item(set, FALSE, 1, Unbounded, FALSE)

Star(set) == Item(set, FALSE, 0, Unbounded, FALSE)

Lit(sym) == One({sym})

InClass(it, c) == IF it.neg THEN c \notin it.set ELSE c \in it.set

RECURSIVE RunLen(_, _, _, _)
\* how many symbols from position pos on belong to the item's class, at most cap
\* (a negative cap never runs out)
RunLen(s, pos, it, cap) ==
    IF cap = 0 \/ pos > Len(s) \/ ~InClass(it, s[pos]) THEN 0
    ELSE 1 + RunLen(s, pos + 1, it, cap - 1)

NoMatch == [ok |-> FALSE, ends |-> <<>>]

RECURSIVE MatchItems(_, _, _, _)
RECURSIVE TryCounts(_, _, _, _, _, _)

\* items k.. of pat matched at pos: the end position of every item, first
\* alternative in priority order that lets the rest of the pattern match
MatchItems(s, pos, pat, k) ==
    IF k > Len(pat) THEN [ok |-> TRUE, ends |-> <<>>]
    ELSE LET it == pat[k]
             r  == RunLen(s, pos, it, it.max)
         IN  IF it.wb
             THEN (IF AtBoundary(s, pos) THEN TryCounts(s, pos, pat, k, 0, 0) ELSE NoMatch)
             ELSE IF r < it.min THEN NoMatch
             ELSE TryCounts(s, pos, pat, k, IF it.lazy THEN it.min ELSE r, r)

\* item k taking c symbols, then the next count in priority order
TryCounts(s, pos, pat, k, c, r) ==
    LET it   == pat[k]
        rest == MatchItems(s, pos + c, pat, k + 1)
    IN  IF rest.ok THEN [ok |-> TRUE, ends |-> <<pos + c - 1>> \o rest.ends]
        ELSE IF it.lazy
             THEN (IF c < r THEN TryCounts(s, pos, pat, k, c + 1, r) ELSE NoMatch)
             ELSE (IF c > it.min THEN TryCounts(s, pos, pat, k, c - 1, r) ELSE NoMatch)

RECURSIVE SearchFrom(_, _, _)
\* re.search(pat, s) scanning start positions from p on: [ok, start, ends]
SearchFrom(s, pat, p) ==
    IF p > Len(s) + 1 THEN [ok |-> FALSE, start |-> 0, ends |-> <<>>]
    ELSE LET m == MatchItems(s, p, pat, 1)
         IN  IF m.ok THEN [ok |-> TRUE, start |-> p, ends |-> m.ends]
             ELSE SearchFrom(s, pat, p + 1)

\* re.search(pat, s)
Search(s, pat) == SearchFrom(s, pat, 1)

\* re.search of a pattern anchored with ^
SearchAnchored(s, pat) ==
    LET m == MatchItems(s, 1, pat, 1)
    IN  [ok |-> m.ok, start |-> 1, ends |-> m.ends]

\* the text items a..b of a successful match span (a capture group)
Group(s, m, a, b) ==
    LET from == IF a = 1 THEN m.start ELSE m.ends[a - 1] + 1
    IN  SubSeq(s, from, m.ends[b])

---------------------------------------------------------------------------
(* BeautifulSoup: elements, text, CSS selectors                            *)

\* an element: tag name, class list, attributes, its own text (one text node,
\* placed before its child elements) and the index of its parent element
Node(tag, classes, attrs, text, parent) ==
    [tag |-> tag, classes |-> classes, attrs |-> attrs, text |-> text, parent |-> parent]

NoAttrs == EmptyMap

Attr1(name, val) == [x \in {name} |-> val]

\* tag.get(name, default)
GetAttr(n, name, default) == IF name \in DOMAIN n.attrs THEN n.attrs[name] ELSE default

HasAttr(n, name) == name \in DOMAIN n.attrs

RECURSIVE Ancestors(_, _)
\* the indices of the proper ancestors of element i
Ancestors(doc, i) ==
    IF doc[i].parent = 0 THEN {}
    ELSE {doc[i].parent} \cup Ancestors(doc, doc[i].parent)

\* the proper descendants of element i (i = 0: the whole document)
Descendants(doc, i) ==
    IF i = 0 THEN DOMAIN doc ELSE {j \in DOMAIN doc : i \in Ancestors(doc, j)}

Children(doc, i) == {j \in DOMAIN doc : doc[j].parent = i}

SetMin(S) == CHOOSE x \in S : \A y \in S : x <= y

RECURSIVE SortedSeq(_)
\* the elements of a set of indices, in document order
SortedSeq(S) == IF S = {} THEN <<>> ELSE <<SetMin(S)>> \o SortedSeq(S \ {SetMin(S)})

RECURSIVE ConcatText(_, _, _)
\* the text nodes of the elements idx (in order), each stripped if strip is set,
\* empty ones skipped when stripping, joined with ''
ConcatText(doc, idx, strip) ==
    IF idx = <<>> THEN <<>>
    ELSE (IF strip THEN Strip(doc[Head(idx)].text) ELSE doc[Head(idx)].text)
         \o ConcatText(doc, Tail(idx), strip)

\* the string class the parser gives the text of an element (bs4 string
\* containers): get_text of an element returns only the strings of its own class
StringClass(tag) ==
    CASE tag = "script" -> "Script" [] tag = "style" -> "Stylesheet"
      [] tag = "template" -> "TemplateString" [] OTHER -> "NavigableString"

\* tag.get_text(strip=...) of element i; i = 0: soup.get_text()
GetText(doc, i, strip) ==
    LET cls == IF i = 0 THEN "NavigableString" ELSE StringClass(doc[i].tag)
    IN  ConcatText(doc, SortedSeq({j \in (IF i = 0 THEN {} ELSE {i}) \cup Descendants(doc, i) :
                                      StringClass(doc[j].tag) = cls}), strip)

RECURSIVE TagString(_, _)
\* tag.string: the single text node below the element, None (absent) otherwise
TagString(doc, i) ==
    LET ch == Children(doc, i)
    IN  IF doc[i].text # <<>>
        THEN (IF ch = {} THEN [some |-> TRUE, val |-> doc[i].text]
              ELSE [some |-> FALSE, val |-> <<>>])
        ELSE IF Cardinality(ch) = 1 THEN TagString(doc, SetMin(ch))
        ELSE [some |-> FALSE, val |-> <<>>]

\* a compound selector: tag name ("" any), class (<<>> any), attribute test
\* (attr "" none; op "=", "*=", "^=" or "has")
Compound(tag, cls, attr, op, val) ==
    [tag |-> tag, cls |-> cls, attr |-> attr, op |-> op, val |-> val]

ByTag(tag) == Compound(tag, <<>>, "", "", <<>>)

ByClass(cls) == Compound("", cls, "", "", <<>>)

ByTagClass(tag, cls) == Compound(tag, cls, "", "", <<>>)

ByAttr(tag, attr, op, val) == Compound(tag, <<>>, attr, op, val)

HasClass(n, cls) == \E k \in DOMAIN n.classes : n.classes[k] = cls

IsPrefix(p, s) == Len(p) <= Len(s) /\ SubSeq(s, 1, Len(p)) = p

AttrTest(n, c) ==
    IF c.attr = "class"
    THEN (CASE c.op = "*=" -> \E k \in DOMAIN n.classes : Contains(n.classes[k], c.val)
            [] c.op = "="  -> n.classes = <<c.val>>
            [] c.op = "^=" -> n.classes # <<>> /\ IsPrefix(c.val, n.classes[1])
            [] OTHER       -> n.classes # <<>>)
    ELSE /\ HasAttr(n, c.attr)
         /\ (CASE c.op = "="  -> n.attrs[c.attr] = c.val
               [] c.op = "*=" -> Contains(n.attrs[c.attr], c.val)
               [] c.op = "^=" -> IsPrefix(c.val, n.attrs[c.attr])
               [] OTHER       -> TRUE)

MatchCompound(n, c) ==
    /\ (c.tag = "" \/ n.tag = c.tag)
    /\ (c.cls = <<>> \/ HasClass(n, c.cls))
    /\ (c.attr = "" \/ AttrTest(n, c))

RECURSIVE MatchComplex(_, _, _)
\* a complex selector (compounds joined by the descendant combinator) against
\* element i: the last compound matches i, the others some chain of ancestors
MatchComplex(doc, i, cx) ==
    /\ MatchCompound(doc[i], cx[Len(cx)])
    /\ \/ Len(cx) = 1
       \/ \E a \in Ancestors(doc, i) : MatchComplex(doc, a, SubSeq(cx, 1, Len(cx) - 1))

\* a selector list (complex selectors joined by commas)
MatchSelector(doc, i, sel) == \E k \in DOMAIN sel : MatchComplex(doc, i, sel[k])

\* tag.select(sel) below element scope (0: soup.select): indices in document order
Select(doc, scope, sel) ==
    SortedSeq({i \in Descendants(doc, scope) : MatchSelector(doc, i, sel)})

\* tag.select_one(sel): the first match in document order, 0 for None
SelectOne(doc, scope, sel) ==
    LET S == {i \in Descendants(doc, scope) : MatchSelector(doc, i, sel)}
    IN  IF S = {} THEN 0 ELSE SetMin(S)

\* soup.find(string=re.compile(pat)): the first text node the pattern set
\* matches (any of the alternatives), as the index of its element; 0 for None
FindString(doc, pats) ==
    LET S == {i \in DOMAIN doc :
                 doc[i].text # <<>> /\ \E p \in pats : Search(doc[i].text, p).ok}
    IN  IF S = {} THEN 0 ELSE SetMin(S)

\* soup.find_all(tag): indices in document order
FindAll(doc, tag) == SortedSeq({i \in DOMAIN doc : doc[i].tag = tag})

---------------------------------------------------------------------------
(* Helpers shared by the extractors                                        *)

\* a selector list holding one compound selector
Sel1(c) == << <<c>> >>

\* a class name or attribute value that is one symbol
W(name) == <<name>>

Quotes == {"\"", "'"}

\* str.lower(), symbol by symbol, on the symbols that have an upper-case form
LowerSym(c) ==
    CASE c \in {"Home", "HOME"} -> "home"
      [] c \in {"Accueil"} -> "accueil"
      [] c \in {"Startseite"} -> "startseite"
      [] c \in {"Sold", "SOLD"} -> "sold"
      [] OTHER -> c

Lower(s) == [i \in DOMAIN s |-> LowerSym(s[i])]

\* Optional[str]
None == [some |-> FALSE, val |-> <<>>]

Some(v) == [some |-> TRUE, val |-> v]

\* r'/item/(\d+)\.html'
ItemIdPattern == <<Lit("/item/"), Plus(Digits), Lit(".html")>>

\* r'productId["\']?\s*:\s*["\']?(\d+)'
ProductIdPattern ==
    <<Lit("productId"), Opt(Quotes), Star(Whitespace), Lit(":"), Star(Whitespace),
      Opt(Quotes), Plus(Digits)>>

\* r'(\d+)' and r'\d+'
IntPattern == <<Plus(Digits)>>

\* r'(\d+\.\d+)'
DecimalPattern == <<Plus(Digits), Lit("."), Plus(Digits)>>

\* soup.select_one(', '.join(sels[k..])): the selectors joined into one list,
\* whose first match is the first in document order
FirstMatchInDocument(doc, sels, k) ==
    LET S == {i \in DOMAIN doc : \E j \in k..Len(sels) : MatchSelector(doc, i, sels[j])}
    IN  IF S = {} THEN 0 ELSE SetMin(S)

RECURSIVE FirstMatch(_, _, _)
\* for selector in sels[k..]: elem = soup.select_one(selector); if elem: ... break
\* the element the loop stops at, 0 if no selector matches
FirstMatch(doc, sels, k) ==
    LET Try(elem) == IF elem # 0 THEN elem ELSE FirstMatch(doc, sels, k + 1)
    IN  IF k > Len(sels) THEN 0 ELSE Try(SelectOne(doc, 0, sels[k]))

\* m[key] = elem.get_text(strip=True) if elem else ''
StoreTextOrEmpty(m, key, doc, elem) ==
    Put(m, key, PyStr(IF elem # 0 THEN GetText(doc, elem, TRUE) ELSE <<>>))

\* if elem: m[key] = elem.get_text(strip=True)
StoreText(m, key, doc, elem) ==
    IF elem # 0 THEN Put(m, key, PyStr(GetText(doc, elem, TRUE))) ELSE m

\* if elem (a text node found by soup.find(string=...)): m[key] = elem.strip()
StoreStripped(m, key, doc, elem) ==
    IF elem # 0 THEN Put(m, key, PyStr(Strip(doc[elem].text))) ELSE m

\* if v (an Optional[str]) is neither None nor empty: m[key] = v
StoreStr(m, key, v) == IF v.some /\ v.val # <<>> THEN Put(m, key, PyStr(v.val)) ELSE m

\* if v (an Optional value) is not None: m[key] = v
StoreSome(m, key, v) == IF v.some THEN Put(m, key, v.val) ELSE m

---------------------------------------------------------------------------
(* _extract_basic_info and its helpers                                     *)

title_selectors ==
    << Sel1(ByAttr("h1", "data-pl", "=", W("product-title"))),
       << <<ByClass(W("title--wrap--UUHae_g")), ByTag("h1")>> >>,
       Sel1(ByClass(W("product-title"))),
       Sel1(ByTag("h1")) >>

RECURSIVE ScriptProductId(_, _)
\* for script in scripts: the first script whose text holds a productId
ScriptProductId(doc, scripts) ==
    IF scripts = <<>> THEN None
    ELSE LET Found(content, m) == IF m.ok THEN Some(Group(content, m, 7, 7))
                                  ELSE ScriptProductId(doc, Tail(scripts))
             In(content) == Found(content, Search(content, ProductIdPattern))
         IN  In(GetText(doc, Head(scripts), FALSE))

\* _extract_product_id with the driver's URL asked before the og:url meta tag
ExtractProductIdUrlFirst(doc, drv) ==
    LET FromUrl(og_url, url, m1) == IF og_url # 0 /\ m1.ok THEN Some(Group(url, m1, 2, 2))
                                    ELSE ScriptProductId(doc, FindAll(doc, "script"))
        FromMeta(og_url, url) == FromUrl(og_url, url, Search(url, ItemIdPattern))
        From(og_url) == FromMeta(og_url, IF og_url = 0 THEN <<>>
                                         ELSE GetAttr(doc[og_url], "content", <<>>))
        FromDriver(m2) ==
            IF drv.open /\ m2.ok THEN Some(Group(drv.current_url, m2, 2, 2))
            ELSE From(SelectOne(doc, 0, Sel1(ByAttr("meta", "property", "=", <<"og:", "url">>))))
    IN  FromDriver(Search(drv.current_url, ItemIdPattern))

\* _extract_product_id reading the URL the browser showed before this call went
\* to its page
ExtractProductIdBeforeGet(doc, drv) ==
    LET FromDriver(m2) == IF drv.open /\ m2.ok THEN Some(Group(driver.current_url, m2, 2, 2))
                          ELSE ScriptProductId(doc, FindAll(doc, "script"))
        FromUrl(og_url, url, m1) == IF og_url # 0 /\ m1.ok THEN Some(Group(url, m1, 2, 2))
                                    ELSE FromDriver(Search(driver.current_url, ItemIdPattern))
        FromMeta(og_url, url) == FromUrl(og_url, url, Search(url, ItemIdPattern))
        From(og_url) == FromMeta(og_url, IF og_url = 0 THEN <<>>
                                         ELSE GetAttr(doc[og_url], "content", <<>>))
    IN  From(SelectOne(doc, 0, Sel1(ByAttr("meta", "property", "=", <<"og:", "url">>))))

\* _extract_product_id; drv is self.driver (its current_url, or closed)
ExtractProductId(doc, drv) ==
    LET FromDriver(m2) == IF drv.open /\ m2.ok THEN Some(Group(drv.current_url, m2, 2, 2))
                          ELSE ScriptProductId(doc, FindAll(doc, "script"))
        FromUrl(og_url, url, m1) == IF og_url # 0 /\ m1.ok THEN Some(Group(url, m1, 2, 2))
                                    ELSE FromDriver(Search(drv.current_url, ItemIdPattern))
        FromMeta(og_url, url) == FromUrl(og_url, url, Search(url, ItemIdPattern))
        From(og_url) == FromMeta(og_url, IF og_url = 0 THEN <<>>
                                         ELSE GetAttr(doc[og_url], "content", <<>>))
    IN  From(SelectOne(doc, 0, Sel1(ByAttr("meta", "property", "=", <<"og:", "url">>))))

HomeWords == {<<"home">>, <<"accueil">>, <<"startseite">>}

RECURSIVE LastMeaningfulCrumb(_, _)
\* for crumb in reversed(breadcrumbs): the first whose text is not a home word
LastMeaningfulCrumb(doc, crumbs) ==
    IF crumbs = <<>> THEN None
    ELSE LET Crumb(text) == IF Lower(text) \notin HomeWords THEN Some(text)
                            ELSE LastMeaningfulCrumb(doc, SubSeq(crumbs, 1, Len(crumbs) - 1))
         IN  Crumb(GetText(doc, crumbs[Len(crumbs)], TRUE))

\* _extract_category
ExtractCategory(doc) ==
    LET FromMeta(meta_category) ==
            IF meta_category # 0 THEN GetAttr(doc[meta_category], "content", <<>>)
            ELSE <<"Unknown">>
        FromCrumb(crumb) ==
            IF crumb.some THEN crumb.val
            ELSE FromMeta(SelectOne(doc, 0, Sel1(ByAttr("meta", "name", "=", W("category")))))
        From(breadcrumbs) ==
            FromCrumb(IF Len(breadcrumbs) > 1 THEN LastMeaningfulCrumb(doc, breadcrumbs) ELSE None)
    IN  From(Select(doc, 0, << <<ByClass(W("breadcrumb")), ByTag("a")>>,
                               <<ByClass(W("nav-breadcrumb")), ByTag("a")>> >>))

brand_selectors ==
    << Sel1(ByClass(W("product-brand"))),
       Sel1(ByClass(W("brand-name"))),
       Sel1(ByAttr("", "data-brand", "has", <<>>)),
       Sel1(ByClass(W("manufacturer"))) >>

\* brand = elem.get_text(strip=True) or elem.get('data-brand', '')
BrandOf(doc, elem) ==
    LET Or(text) == IF text # <<>> THEN text ELSE GetAttr(doc[elem], "data-brand", <<>>)
    IN  Or(GetText(doc, elem, TRUE))

RECURSIVE BrandLoop(_, _)
\* for selector in brand_selectors[k..]: if elem: brand = ...; if brand: return brand
BrandLoop(doc, k) ==
    IF k > Len(brand_selectors) THEN None
    ELSE LET Try(brand) == IF brand # <<>> THEN Some(brand) ELSE BrandLoop(doc, k + 1)
             At(elem) == Try(IF elem # 0 THEN BrandOf(doc, elem) ELSE <<>>)
         IN  At(SelectOne(doc, 0, brand_selectors[k]))

\* _extract_brand
ExtractBrand(doc) == BrandLoop(doc, 1)

\* _extract_basic_info
ExtractBasicInfo(doc, drv) ==
    LET b1 == StoreText(EmptyMap, "title", doc, FirstMatch(doc, title_selectors, 1))
        b2 == StoreStr(b1, "product_id", ExtractProductId(doc, drv))
        b3 == Put(b2, "category", PyStr(ExtractCategory(doc)))
        b4 == StoreStr(b3, "brand", ExtractBrand(doc))
    IN  PyDict(b4)

---------------------------------------------------------------------------
(* _extract_pricing                                                        *)

price_selectors ==
    << Sel1(ByTagClass("span", W("product-price-value"))),
       Sel1(ByClass(W("price--currentPriceText--V8_y_b5"))),
       Sel1(ByClass(W("pdp-comp-price-current"))),
       << <<ByAttr("", "data-pl", "=", W("product-price")),
            ByClass(W("price--current--I3Zeidd")), ByTag("span")>> >> >>

original_price_selectors ==
    << Sel1(ByClass(W("price--originalPrice"))),
       Sel1(ByClass(W("product-price-original"))),
       Sel1(ByClass(W("price--lineThrough"))) >>

\* r'za szt|per piece|pieces?'
BulkPatterns == { <<Lit("za szt")>>, <<Lit("per piece")>>, <<Lit("piece"), Opt({"s"})>> }

\* r'bez podatku|tax|VAT' with re.I
TaxPatterns ==
    { <<One({"bez podatku", "Bez podatku", "BEZ PODATKU"})>>,
      <<One({"tax", "Tax", "TAX"})>>,
      <<One({"vat", "Vat", "VAT"})>> }

\* re.search(r'([A-Z]{3}|[€$£¥₹₽])', price): the pattern without its anchor
CurrencyMatchAnywhere(price) ==
    LET Symbol(sym) == IF sym.ok THEN Some(PyStr(Group(price, sym, 1, 1))) ELSE None
        Code(code) == IF code.ok THEN Some(PyStr(Group(price, code, 1, 1)))
                      ELSE Symbol(Search(price, <<One(CurrencySymbols)>>))
    IN  Code(Search(price, <<Item(UpperLetters, FALSE, 3, 3, FALSE)>>))

\* re.search(r'^([A-Z]{3}|[€$£¥₹₽])', price): the leading currency token
CurrencyMatch(price) ==
    LET Symbol(sym) == IF sym.ok THEN Some(PyStr(Group(price, sym, 1, 1))) ELSE None
        Code(code) == IF code.ok THEN Some(PyStr(Group(price, code, 1, 1)))
                      ELSE Symbol(SearchAnchored(price, <<One(CurrencySymbols)>>))
    IN  Code(SearchAnchored(price, <<Item(UpperLetters, FALSE, 3, 3, FALSE)>>))

\* if pricing.get('current_price'): the currency its leading token names
StoreCurrency(pricing) ==
    StoreSome(pricing, "currency",
              IF "current_price" \in DOMAIN pricing /\ pricing["current_price"].val # <<>>
              THEN CurrencyMatch(pricing["current_price"].val) ELSE None)


\* _extract_pricing
ExtractPricing(doc) ==
    LET p1 == StoreText(EmptyMap, "current_price", doc, FirstMatch(doc, price_selectors, 1))
        p2 == StoreText(p1, "original_price", doc, FirstMatch(doc, original_price_selectors, 1))
        p3 == StoreText(p2, "bulk_price", doc, FindString(doc, BulkPatterns))
        p4 == StoreText(p3, "discount", doc,
                        SelectOne(doc, 0, << <<ByClass(W("discount-percent"))>>,
                                             <<ByClass(W("sale-percent"))>> >>))
        p5 == StoreCurrency(p4)
        p6 == StoreStripped(p5, "tax_info", doc, FindString(doc, TaxPatterns))
    IN  PyDict(p6)

---------------------------------------------------------------------------
(* Numbers                                                                 *)

RECURSIVE DropTrailingZeros(_)
DropTrailingZeros(ds) ==
    IF ds # <<>> /\ ds[Len(ds)] = "0" THEN DropTrailingZeros(SubSeq(ds, 1, Len(ds) - 1))
    ELSE ds

\* float(text) for text of the form digits or digits.digits
FloatOf(whole, frac) == PyFloat(FALSE, DigitsVal(whole), DropTrailingZeros(frac))

\* re.search(r'(\d+(?:\.\d+)?)', s): the digits before and after the point
NumberMatch(s) ==
    LET Number(m, d) ==
            IF ~m.ok THEN None
            ELSE IF d.ok THEN Some(<<SubSeq(s, m.start, d.ends[1]),
                                     SubSeq(s, d.ends[2] + 1, d.ends[3])>>)
            ELSE Some(<<Group(s, m, 1, 1), <<>> >>)
        Fraction(m) == Number(m, IF m.ok THEN MatchItems(s, m.start, DecimalPattern, 1)
                                 ELSE NoMatch)
    IN  Fraction(Search(s, IntPattern))

\* int(s): surrounding whitespace, an optional sign, digits that single
\* underscores may separate; anything else raises ValueError (ok = FALSE)
IntParse(s) ==
    LET Value(neg, n) == [ok |-> TRUE, val |-> IF neg THEN 0 - n ELSE n]
        Literal(neg, body) ==
            IF /\ body # <<>>
               /\ \A i \in DOMAIN body : body[i] \in Digits \cup {"_"}
               /\ body[1] # "_" /\ body[Len(body)] # "_"
               /\ \A i \in 1..(Len(body) - 1) : ~(body[i] = "_" /\ body[i + 1] = "_")
            THEN Value(neg, DigitsVal(RemoveSym(body, "_")))
            ELSE [ok |-> FALSE, val |-> 0]
        Signed(t) == Literal(t # <<>> /\ Head(t) = "-",
                             IF t # <<>> /\ Head(t) \in {"+", "-"} THEN Tail(t) ELSE t)
    IN  Signed(Strip(s))

\* an exception leaving a function
PyException == [kind |-> "exception", val |-> <<>>]

---------------------------------------------------------------------------
(* _extract_reviews_and_ratings and _parse_individual_review               *)

review_selectors ==
    << Sel1(ByAttr("a", "href", "*=", W("review"))),
       Sel1(ByClass(W("reviewer--reviews--cx7Zs_V"))),
       Sel1(ByClass(W("review-count"))) >>

sold_selectors ==
    << Sel1(ByClass(<<"reviewer--", "sold", "--ytPeoEy">>)),
       Sel1(ByClass(<<"product-", "sold", "-count">>)),
       Sel1(ByAttr("", "class", "*=", W("sold"))) >>

RECURSIVE ReviewCountFirstMatch(_, _)
\* the loop with its break after the first matched element, digit or not
ReviewCountFirstMatch(doc, k) ==
    IF k > Len(review_selectors) THEN None
    ELSE LET Count(text, m) ==
                 IF m.ok THEN Some(PyInt(DigitsVal(Group(text, m, 1, 1)))) ELSE None
             In(text) == Count(text, Search(text, IntPattern))
             At(elem) == IF elem = 0 THEN ReviewCountFirstMatch(doc, k + 1)
                         ELSE In(GetText(doc, elem, FALSE))
         IN  At(SelectOne(doc, 0, review_selectors[k]))

RECURSIVE ReviewCountLoop(_, _)
\* for selector in review_selectors[k..]: the first matched element whose text
\* holds a digit decides and ends the loop
ReviewCountLoop(doc, k) ==
    IF k > Len(review_selectors) THEN None
    ELSE LET Count(elem, text, m) ==
                 IF elem # 0 /\ m.ok THEN Some(PyInt(DigitsVal(Group(text, m, 1, 1))))
                 ELSE ReviewCountLoop(doc, k + 1)
             In(elem, text) == Count(elem, text, Search(text, IntPattern))
             At(elem) == In(elem, IF elem = 0 THEN <<>> ELSE GetText(doc, elem, FALSE))
         IN  At(SelectOne(doc, 0, review_selectors[k]))

RECURSIVE SoldCountLoop(_, _)
\* for selector in sold_selectors[k..]: the first matched element whose text
\* holds 'sold' and a digit decides and ends the loop
SoldCountLoop(doc, k) ==
    IF k > Len(sold_selectors) THEN None
    ELSE LET Count(elem, text, m) ==
                 IF elem # 0 /\ Contains(Lower(text), W("sold")) /\ m.ok
                 THEN Some(PyInt(DigitsVal(Group(text, m, 1, 1))))
                 ELSE SoldCountLoop(doc, k + 1)
             In(elem, text) == Count(elem, text, Search(text, IntPattern))
             At(elem) == In(elem, IF elem = 0 THEN <<>> ELSE GetText(doc, elem, FALSE))
         IN  At(SelectOne(doc, 0, sold_selectors[k]))

RECURSIVE ImageSrcs(_, _)
\* src = img.get('src') or img.get('data-src'); if src: append, for each img
ImageSrcs(doc, imgs) ==
    IF imgs = <<>> THEN <<>>
    ELSE LET Keep(src) == IF src # <<>> THEN <<PyStr(src)>> ELSE <<>>
             Source(img) == Keep(IF GetAttr(img, "src", <<>>) # <<>>
                                 THEN GetAttr(img, "src", <<>>)
                                 ELSE GetAttr(img, "data-src", <<>>))
         IN  Source(doc[Head(imgs)]) \o ImageSrcs(doc, Tail(imgs))

\* l[:n] without the limit
FirstNAll(l, n) == l

\* l[:n]
FirstN(l, n) == SubSeq(l, 1, IF Len(l) < n THEN Len(l) ELSE n)

\* m[key] = l without the test for an empty list
StoreListAlways(m, key, l) == Put(m, key, PyList(l))

\* if l: m[key] = l
StoreList(m, key, l) == IF l # <<>> THEN Put(m, key, PyList(l)) ELSE m

\* the float the groups of a NumberMatch denote, None without a match
FloatMatch(m) == IF m.some THEN Some(FloatOf(m.val[1], m.val[2])) ELSE None

\* if rating_elem: rating_match = re.search(r'(\d+(?:\.\d+)?)', the first class
\* of rating_elem, '' without one); if rating_match: review_data['rating'] = float(...)
StoreReviewRating(m, doc, rating_elem) ==
    StoreSome(m, "rating",
              IF rating_elem # 0 /\ doc[rating_elem].classes # <<>>
              THEN FloatMatch(NumberMatch(doc[rating_elem].classes[1])) ELSE None)

\* _parse_individual_review
ParseIndividualReview(doc, review_elem) ==
    LET r1 == StoreText(EmptyMap, "reviewer_info", doc,
                        SelectOne(doc, review_elem, << <<ByClass(W("reviewer-info"))>>,
                                                       <<ByClass(W("review-author"))>> >>))
        r2 == StoreText(r1, "review_text", doc,
                        SelectOne(doc, review_elem,
                            << <<ByClass(W("review-text"))>>, <<ByClass(W("review-content"))>>,
                               <<ByClass(W("list--itemReview--d9Z9Z5Z"))>> >>))
        r3 == StoreReviewRating(r2, doc,
                        SelectOne(doc, review_elem, << <<ByClass(W("rating"))>>,
                                                       <<ByClass(W("stars"))>> >>))
        r4 == StoreText(r3, "sku", doc,
                        SelectOne(doc, review_elem,
                            << <<ByClass(W("sku-info"))>>, <<ByClass(W("variant-info"))>>,
                               <<ByClass(W("list--itemSku--idEQSGC"))>> >>))
        r5 == StoreList(r4, "images",
                        ImageSrcs(doc, Select(doc, review_elem,
                                       << <<ByClass(W("review-image")), ByTag("img")>> >>)))
    IN  r5

\* review_items[:10]
ReviewLimit == 10

RECURSIVE ParseReviews(_, _)
\* for review in review_items: review_data = ...; if review_data: append
ParseReviews(doc, items) ==
    IF items = <<>> THEN <<>>
    ELSE LET Keep(review_data) ==
                 IF review_data # EmptyMap THEN <<PyDict(review_data)>> ELSE <<>>
         IN  Keep(ParseIndividualReview(doc, Head(items))) \o ParseReviews(doc, Tail(items))

\* does tag.string of element i exist and hold a decimal number
IsRatingString(doc, i) ==
    LET Holds(str) == str.some /\ Search(str.val, DecimalPattern).ok
    IN  Holds(TagString(doc, i))

\* soup.find('strong', string=re.compile(r'\d+\.\d+')): 0 for None
FindRatingString(doc) ==
    LET First(strongs) == IF strongs = {} THEN 0 ELSE SetMin(strongs)
    IN  First({i \in DOMAIN doc : doc[i].tag = "strong" /\ IsRatingString(doc, i)})

\* rating_text = rating_elem.get_text(strip=True); match = re.search(r'(\d+\.\d+)',
\* rating_text); float(match.group(1)), None when either is missing
OverallRating(doc, rating_elem) ==
    LET Rating(rating_text, match) ==
            IF rating_elem # 0 /\ match.ok
            THEN Some(FloatOf(Group(rating_text, match, 1, 1), Group(rating_text, match, 3, 3)))
            ELSE None
        In(rating_text) == Rating(rating_text, Search(rating_text, DecimalPattern))
    IN  In(IF rating_elem = 0 THEN <<>> ELSE GetText(doc, rating_elem, TRUE))

\* _extract_reviews_and_ratings
ExtractReviewsAndRatings(doc) ==
    LET v1 == StoreSome(EmptyMap, "rating", OverallRating(doc, FindRatingString(doc)))
        v2 == StoreSome(v1, "review_count", ReviewCountLoop(doc, 1))
        v3 == StoreSome(v2, "sold_count", SoldCountLoop(doc, 1))
        v4 == StoreList(v3, "individual_reviews",
                        ParseReviews(doc, FirstN(Select(doc, 0,
                                           << <<ByClass(W("list--itemDesc--JcxNPy5"))>>,
                                              <<ByClass(W("review-item"))>>,
                                              <<ByClass(W("feedback-item"))>> >>), ReviewLimit)))
    IN  PyDict(v4)

---------------------------------------------------------------------------
(* _extract_product_variations and _parse_variation_item                   *)

\* any('selected' in cls for cls in classes)
AnyClassHas(n, word) == \E k \in DOMAIN n.classes : Contains(n.classes[k], word)

\* if img: option_data['image'] = img.get('src', '');
\* option_data['alt_text'] = img.get('alt', '')
StoreImage(m, doc, img) ==
    IF img # 0
    THEN Put(Put(m, "image", PyStr(GetAttr(doc[img], "src", <<>>))),
             "alt_text", PyStr(GetAttr(doc[img], "alt", <<>>)))
    ELSE m

\* the descriptor of one option element: option_data
OptionData(doc, option) ==
    LET o1 == StoreImage(EmptyMap, doc, SelectOne(doc, option, Sel1(ByTag("img"))))
        o2 == StoreStr(o1, "text", Some(GetText(doc, option, TRUE)))
        o3 == PutIf(AnyClassHas(doc[option], W("selected")), o2, "selected", PyBool(TRUE))
        o4 == PutIf(\/ AnyClassHas(doc[option], <<"sold", "Out">>)
                    \/ AnyClassHas(doc[option], W("sold-out")), o3, "sold_out", PyBool(TRUE))
    IN  o4

RECURSIVE ParseOptionsKeepAll(_, _)
\* options.append(option_data) without the test for an empty descriptor
ParseOptionsKeepAll(doc, option_elems) ==
    IF option_elems = <<>> THEN <<>>
    ELSE <<PyDict(OptionData(doc, Head(option_elems)))>>
         \o ParseOptionsKeepAll(doc, Tail(option_elems))

RECURSIVE ParseOptions(_, _)
\* for option in option_elems: ...; if option_data: options.append(option_data)
ParseOptions(doc, option_elems) ==
    IF option_elems = <<>> THEN <<>>
    ELSE LET Keep(option_data) ==
                 IF option_data # EmptyMap THEN <<PyDict(option_data)>> ELSE <<>>
         IN  Keep(OptionData(doc, Head(option_elems))) \o ParseOptions(doc, Tail(option_elems))

\* _parse_variation_item without the test for an empty option list
ParseVariationItemKeepEmpty(doc, sku_item) ==
    LET Titled(title_elem) ==
            IF title_elem = 0 THEN EmptyMap
            ELSE Put(EmptyMap, Strip(RemoveSym(GetText(doc, title_elem, TRUE), ":")),
                     PyList(ParseOptions(doc, Select(doc, sku_item,
                                        << <<ByAttr("", "data-sku-col", "has", <<>>)>>,
                                           <<ByClass(W("variation-option"))>> >>))))
    IN  Titled(SelectOne(doc, sku_item, << <<ByClass(W("sku-item--title--Z0HLO87"))>>,
                                          <<ByClass(W("variation-title"))>> >>))

\* _parse_variation_item: a dict keyed by the variation name (a str)
ParseVariationItem(doc, sku_item) ==
    LET Item1(variation_name, options) ==
            IF options # <<>> THEN Put(EmptyMap, variation_name, PyList(options)) ELSE EmptyMap
        Titled(title_elem) ==
            IF title_elem = 0 THEN EmptyMap
            ELSE Item1(Strip(RemoveSym(GetText(doc, title_elem, TRUE), ":")),
                       ParseOptions(doc, Select(doc, sku_item,
                                        << <<ByAttr("", "data-sku-col", "has", <<>>)>>,
                                           <<ByClass(W("variation-option"))>> >>)))
    IN  Titled(SelectOne(doc, sku_item, << <<ByClass(W("sku-item--title--Z0HLO87"))>>,
                                          <<ByClass(W("variation-title"))>> >>))

RECURSIVE VariationLoopKeepFirst(_, _, _)
\* the loop that keeps the first variation of a name
VariationLoopKeepFirst(doc, sku_items, variations) ==
    IF sku_items = <<>> THEN variations
    ELSE VariationLoopKeepFirst(doc, Tail(sku_items),
                                Update(ParseVariationItem(doc, Head(sku_items)), variations))

RECURSIVE VariationLoop(_, _, _)
\* for sku_item in sku_items: if variation_data: variations.update(variation_data)
VariationLoop(doc, sku_items, variations) ==
    IF sku_items = <<>> THEN variations
    ELSE VariationLoop(doc, Tail(sku_items),
                       Update(variations, ParseVariationItem(doc, Head(sku_items))))

\* the extractor without its except clause: the fault leaves the function
VariationsFaultUncaught(variations) == PyException

\* the except clause of _extract_product_variations: the fault is logged and
\* the mapping built so far is returned
VariationsOnFault(variations) == PyDict(variations)

\* sku_items = sku_wrapper.select(...) when the wrapper exists
SkuItems(doc, sku_wrapper) ==
    IF sku_wrapper = 0 THEN <<>>
    ELSE Select(doc, sku_wrapper, << <<ByClass(W("sku-item--wrap--t9Qszzx"))>>,
                                    <<ByClass(W("sku-item"))>> >>)

\* max_qty = quantity_elem.get('max') if quantity_elem.name == 'input' else None
MaxQty(doc, quantity_elem) ==
    IF quantity_elem # 0 /\ doc[quantity_elem].tag = "input"
    THEN GetAttr(doc[quantity_elem], "max", <<>>) ELSE <<>>

\* variations['max_quantity'] = max_qty, the attribute text without int()
StoreMaxQuantityRaw(variations, max_qty) ==
    IF max_qty = <<>> THEN PyDict(variations)
    ELSE PyDict(Put(variations, W("max_quantity"), PyStr(max_qty)))

\* if max_qty: variations['max_quantity'] = int(max_qty); the ValueError of
\* int() is caught by the except clause
StoreMaxQuantity(variations, max_qty) ==
    LET Store(n) == IF n.ok THEN PyDict(Put(variations, W("max_quantity"), PyInt(n.val)))
                    ELSE VariationsOnFault(variations)
    IN  IF max_qty = <<>> THEN PyDict(variations) ELSE Store(IntParse(max_qty))

\* _extract_product_variations; its keys are strs: variation names,
\* 'current_selection', 'max_quantity'
ExtractProductVariations(doc) ==
    LET v1 == VariationLoop(doc, SkuItems(doc,
                      SelectOne(doc, 0, << <<ByClass(W("sku--wrap--xgoW06M"))>>,
                                           <<ByClass(W("product-sku"))>>,
                                           <<ByClass(W("sku-wrap"))>> >>)), EmptyMap)
        v2 == StoreText(v1, W("current_selection"), doc,
                      SelectOne(doc, 0, << <<ByClass(W("sku--menuTitle--UIEMJcG"))>>,
                                           <<ByClass(W("current-sku"))>> >>))
    IN  StoreMaxQuantity(v2, MaxQty(doc,
                      SelectOne(doc, 0, << <<ByClass(W("quantity-selector"))>>,
                                           <<ByAttr("input", "name", "*=", W("quantity"))>> >>)))

---------------------------------------------------------------------------
(* json.loads over symbols.  A JSON string literal is one symbol.          *)

JsonStringSyms ==
    {"\"foo\"", "\"bar\"", "\"a.jpg\"", "\"b.jpg\"", "\"c.jpg\"", "\"d.jpg\"",
     "\"imagePathList\"", "\"summImagePathList\"", "\"image\"", "\"images\"", "\"gallery\""}

\* the str a JSON string literal denotes
JsonStringVal(sym) ==
    CASE sym = "\"foo\"" -> W("foo") [] sym = "\"bar\"" -> W("bar")
      [] sym = "\"a.jpg\"" -> W("a.jpg") [] sym = "\"b.jpg\"" -> W("b.jpg")
      [] sym = "\"c.jpg\"" -> W("c.jpg") [] sym = "\"d.jpg\"" -> W("d.jpg")
      [] sym = "\"imagePathList\"" -> W("imagePathList")
      [] sym = "\"summImagePathList\"" -> W("summImagePathList")
      [] sym = "\"image\"" -> W("image") [] sym = "\"images\"" -> W("images")
      [] sym = "\"gallery\"" -> W("gallery")

PyNone == [kind |-> "none", val |-> <<>>]

JsonFail == [ok |-> FALSE, val |-> PyNone, next |-> 0]

RECURSIVE SkipWs(_, _)
SkipWs(t, pos) == IF pos <= Len(t) /\ t[pos] \in Whitespace THEN SkipWs(t, pos + 1) ELSE pos

\* a JSON number at pos: -? int (. digits)?, no leading zeros
JsonNumber(t, pos) ==
    LET Number(neg, p, n, f, whole) ==
            IF n = 0 \/ (n > 1 /\ t[p] = "0") THEN JsonFail
            ELSE IF f > 0
                 THEN [ok |-> TRUE, next |-> p + n + 1 + f,
                       val |-> PyFloat(neg, whole,
                                       DropTrailingZeros(SubSeq(t, p + n + 1, p + n + f)))]
            ELSE IF p + n <= Len(t) /\ t[p + n] = "." THEN JsonFail
            ELSE [ok |-> TRUE, next |-> p + n, val |-> PyInt(IF neg THEN 0 - whole ELSE whole)]
        Fraction(neg, p, n) ==
            Number(neg, p, n,
                   IF p + n <= Len(t) /\ t[p + n] = "."
                   THEN RunLen(t, p + n + 1, Plus(Digits), Unbounded) ELSE 0,
                   DigitsVal(SubSeq(t, p, p + n - 1)))
        Whole(neg, p) == Fraction(neg, p, RunLen(t, p, Plus(Digits), Unbounded))
        Sign(neg) == Whole(neg, IF neg THEN pos + 1 ELSE pos)
    IN  Sign(pos <= Len(t) /\ t[pos] = "-")

RECURSIVE JsonValue(_, _)
RECURSIVE JsonElements(_, _, _)
RECURSIVE JsonMembers(_, _, _)

\* the JSON value that starts at pos (after whitespace): [ok, val, next]
JsonValue(t, pos) ==
    LET Array(p, q) ==
            IF q <= Len(t) /\ t[q] = "]" THEN [ok |-> TRUE, val |-> PyList(<<>>), next |-> q + 1]
            ELSE JsonElements(t, p + 1, <<>>)
        Object(p, q) ==
            IF q <= Len(t) /\ t[q] = "}"
            THEN [ok |-> TRUE, val |-> PyDict(EmptyMap), next |-> q + 1]
            ELSE JsonMembers(t, p + 1, EmptyMap)
        At(p) ==
            IF p > Len(t) THEN JsonFail
            ELSE IF t[p] \in JsonStringSyms
                 THEN [ok |-> TRUE, val |-> PyStr(JsonStringVal(t[p])), next |-> p + 1]
            ELSE IF t[p] \in {"true", "false"}
                 THEN [ok |-> TRUE, val |-> PyBool(t[p] = "true"), next |-> p + 1]
            ELSE IF t[p] = "null" THEN [ok |-> TRUE, val |-> PyNone, next |-> p + 1]
            ELSE IF t[p] \in Digits \cup {"-"} THEN JsonNumber(t, p)
            ELSE IF t[p] = "[" THEN Array(p, SkipWs(t, p + 1))
            ELSE IF t[p] = "{" THEN Object(p, SkipWs(t, p + 1))
            ELSE JsonFail
    IN  At(SkipWs(t, pos))

\* the elements of an array from pos on, acc holding those already read
JsonElements(t, pos, acc) ==
    LET Next1(v, q) ==
            IF ~v.ok \/ q > Len(t) THEN JsonFail
            ELSE IF t[q] = "]"
                 THEN [ok |-> TRUE, val |-> PyList(Append(acc, v.val)), next |-> q + 1]
            ELSE IF t[q] = "," THEN JsonElements(t, q + 1, Append(acc, v.val))
            ELSE JsonFail
        Element(v) == Next1(v, IF v.ok THEN SkipWs(t, v.next) ELSE 0)
    IN  Element(JsonValue(t, pos))

\* the members of an object from pos on; a repeated key keeps its last value
JsonMembers(t, pos, acc) ==
    LET Next1(k, v, q) ==
            IF ~v.ok \/ q > Len(t) THEN JsonFail
            ELSE IF t[q] = "}"
                 THEN [ok |-> TRUE, next |-> q + 1,
                       val |-> PyDict(Put(acc, JsonStringVal(t[k]), v.val))]
            ELSE IF t[q] = "," THEN JsonMembers(t, q + 1, Put(acc, JsonStringVal(t[k]), v.val))
            ELSE JsonFail
        Member(k, v) == Next1(k, v, IF v.ok THEN SkipWs(t, v.next) ELSE 0)
        Colon(k, c) ==
            Member(k, IF k <= Len(t) /\ t[k] \in JsonStringSyms /\ c <= Len(t) /\ t[c] = ":"
                      THEN JsonValue(t, c + 1) ELSE JsonFail)
        Key(k) == Colon(k, SkipWs(t, k + 1))
    IN  Key(SkipWs(t, pos))

\* json.loads(t): ok = FALSE stands for the JSONDecodeError
JsonLoads(t) ==
    LET Whole(v) == IF v.ok /\ SkipWs(t, v.next) > Len(t) THEN [ok |-> TRUE, val |-> v.val]
                    ELSE [ok |-> FALSE, val |-> PyNone]
    IN  Whole(JsonValue(t, 1))

---------------------------------------------------------------------------
(* _extract_images                                                         *)

main_img_selectors ==
    << Sel1(ByClass(W("magnifier--image--EYYoSlr"))),
       << <<ByClass(W("product-main-image")), ByTag("img")>> >>,
       << <<ByClass(W("main-image")), ByTag("img")>> >> >>

RECURSIVE MainImageLoop(_, _)
\* for selector in main_img_selectors[k..]: if img and img.get('src'): ...; break
MainImageLoop(doc, k) ==
    IF k > Len(main_img_selectors) THEN None
    ELSE LET At(img) == IF img # 0 /\ GetAttr(doc[img], "src", <<>>) # <<>>
                        THEN Some(PyStr(GetAttr(doc[img], "src", <<>>)))
                        ELSE MainImageLoop(doc, k + 1)
         IN  At(SelectOne(doc, 0, main_img_selectors[k]))

\* . without re.DOTALL, repeated lazily: .*?
LazyAny == Item({"\n"}, TRUE, 0, Unbounded, TRUE)

\* r'imagePathList|gallery': the symbols these words occur in
GalleryWords == {"\"imagePathList\"", "imagePathList", "\"gallery\"", "gallery"}

\* r'"imagePathList":\s*(\[.*?\])' and r'"summImagePathList":\s*(\[.*?\])'
ImageListPattern(key) ==
    <<Lit(key), Lit(":"), Star(Whitespace), Lit("["), LazyAny, Lit("]")>>

\* match = re.search(pattern, content); if match: try: image_list =
\* json.loads(match.group(1)); images[key] = image_list; except: continue
StoreImageList(images, key, content, name) ==
    LET Store(j) == IF j.ok THEN Put(images, key, j.val) ELSE images
        Match(m) == IF m.ok THEN Store(JsonLoads(Group(content, m, 4, 6))) ELSE images
    IN  Match(Search(content, ImageListPattern(name)))

RECURSIVE GalleryScriptLoop(_, _, _)
\* for script in scripts: for pattern in image_patterns: a list that parses is
\* stored under gallery_images / thumbnail_images, a later script overwriting an
\* earlier one; the third pattern ('"images?"') stores nothing
GalleryScriptLoop(doc, scripts, images) ==
    IF scripts = <<>> THEN images
    ELSE LET In(content) ==
                 StoreImageList(StoreImageList(images, "gallery_images", content,
                                               "\"imagePathList\""),
                                "thumbnail_images", content, "\"summImagePathList\"")
         IN  GalleryScriptLoop(doc, Tail(scripts), In(GetText(doc, Head(scripts), FALSE)))

\* img.get('src') or img.get('data-src'); '' stands for a falsy result
SrcOrDataSrc(img) ==
    IF GetAttr(img, "src", <<>>) # <<>> THEN GetAttr(img, "src", <<>>)
    ELSE GetAttr(img, "data-src", <<>>)

\* soup.find_all('script', string=re.compile(r'imagePathList|gallery'))
GalleryScripts(doc) ==
    LET Holds(str) == str.some /\ Search(str.val, <<One(GalleryWords)>>).ok
    IN  SortedSeq({i \in DOMAIN doc : doc[i].tag = "script" /\ Holds(TagString(doc, i))})

RECURSIVE GalleryImgs(_, _, _)
\* for img in img_tags: src = ...; if src and src not in gallery_imgs: append
GalleryImgs(doc, img_tags, gallery_imgs) ==
    IF img_tags = <<>> THEN gallery_imgs
    ELSE LET Add(src) ==
                 IF src # <<>> /\ ~\E k \in DOMAIN gallery_imgs : gallery_imgs[k] = PyStr(src)
                 THEN Append(gallery_imgs, PyStr(src)) ELSE gallery_imgs
         IN  GalleryImgs(doc, Tail(img_tags), Add(SrcOrDataSrc(doc[Head(img_tags)])))

\* if not images.get('gallery_images'): the srcs of the gallery img tags
StoreGalleryFallback(images, doc) ==
    IF "gallery_images" \in DOMAIN images /\ images["gallery_images"].val # <<>>
    THEN images
    ELSE StoreList(images, "gallery_images",
                   GalleryImgs(doc, Select(doc, 0,
                                   << <<ByClass(W("image-gallery")), ByTag("img")>>,
                                      <<ByClass(W("product-images")), ByTag("img")>> >>), <<>>))

\* if video_elem: video_src = ...; if video_src: images['product_video'] = video_src
StoreVideo(images, doc, video_elem) ==
    IF video_elem = 0 THEN images
    ELSE StoreStr(images, "product_video", Some(SrcOrDataSrc(doc[video_elem])))

\* _extract_images
ExtractImages(doc) ==
    LET i1 == StoreSome(EmptyMap, "main_image", MainImageLoop(doc, 1))
        i2 == GalleryScriptLoop(doc, GalleryScripts(doc), i1)
        i3 == StoreGalleryFallback(i2, doc)
        i4 == StoreVideo(i3, doc, SelectOne(doc, 0, << <<ByTag("video"), ByTag("source")>>,
                                                      <<ByClass(W("product-video"))>> >>))
    IN  PyDict(i4)

---------------------------------------------------------------------------
(* _extract_shipping_info                                                  *)

LowerLetters == {"a", "b", "c", "d", "e", "f", "g", "h", "i", "j", "k", "l", "m",
                 "n", "o", "p", "q", "r", "s", "t", "u", "v", "w", "x", "y", "z"}

\* \w, one character
WordChars == UpperLetters \cup LowerLetters \cup Digits \cup {"_"}

\* the word symbols that are three characters long
ThreeCharWords == {"tax", "Tax", "TAX", "vat", "Vat", "VAT", "dni", "day"}

\* r'Free shipping|Darmowa dostawa|免费' with re.I
FreeShippingPatterns ==
    { <<One({"Free shipping", "free shipping", "FREE SHIPPING"})>>,
      <<One({"Darmowa dostawa", "darmowa dostawa", "DARMOWA DOSTAWA"})>>,
      <<Lit("CJK_FREE")>> }

\* \w{3}: three word characters, or one three-character word symbol
W3 == { <<Item(WordChars, FALSE, 3, 3, FALSE)>>, <<One(ThreeCharWords)>> }

delivery_patterns ==
    << \* r'\b\w{3}\s+\d+\s*-\s*\w{3}\s+\d+\b'
       { <<WordBoundary>> \o a \o <<Plus(Whitespace), Plus(Digits), Star(Whitespace), Lit("-"),
                                   Star(Whitespace)>> \o b
                          \o <<Plus(Whitespace), Plus(Digits), WordBoundary>> : a \in W3, b \in W3 },
       \* r'\d+\s*-\s*\d+\s*days?'
       { <<Plus(Digits), Star(Whitespace), Lit("-"), Star(Whitespace), Plus(Digits),
           Star(Whitespace), Lit("day"), Opt({"s"})>> },
       \* r'\d+\s*dni\b'
       { <<Plus(Digits), Star(Whitespace), Lit("dni"), WordBoundary>> } >>

RECURSIVE DeliveryLoop(_, _)
\* for pattern in delivery_patterns[k..]: if delivery_elem: ...; break
DeliveryLoop(doc, k) ==
    IF k > Len(delivery_patterns) THEN 0
    ELSE LET Try(delivery_elem) == IF delivery_elem # 0 THEN delivery_elem
                                   ELSE DeliveryLoop(doc, k + 1)
         IN  Try(FindString(doc, delivery_patterns[k]))

RECURSIVE NonEmptyTexts(_, _)
\* method_text = method.get_text(strip=True); if method_text: append
NonEmptyTexts(doc, elems) ==
    IF elems = <<>> THEN <<>>
    ELSE LET Keep(method_text) == IF method_text # <<>> THEN <<PyStr(method_text)>> ELSE <<>>
         IN  Keep(GetText(doc, Head(elems), TRUE)) \o NonEmptyTexts(doc, Tail(elems))

\* if shipping_methods: shipping['shipping_methods'] = methods (possibly [])
StoreMethods(m, doc, shipping_methods) ==
    IF shipping_methods # <<>>
    THEN Put(m, "shipping_methods", PyList(NonEmptyTexts(doc, shipping_methods))) ELSE m

\* _extract_shipping_info
ExtractShippingInfo(doc) ==
    LET s1 == StoreText(EmptyMap, "free_shipping_info", doc,
                        FindString(doc, FreeShippingPatterns))
        s2 == StoreStripped(s1, "delivery_time", doc, DeliveryLoop(doc, 1))
        s3 == StoreText(s2, "delivery_to", doc,
                        SelectOne(doc, 0, << <<ByClass(W("delivery-v2--to--Mtweg7y"))>>,
                                             <<ByClass(W("delivery-location"))>> >>))
        s4 == StoreText(s3, "shipping_cost", doc,
                        SelectOne(doc, 0, << <<ByClass(W("shipping-cost"))>>,
                                             <<ByClass(W("delivery-cost"))>> >>))
        s5 == StoreMethods(s4, doc, Select(doc, 0, << <<ByClass(W("shipping-method"))>>,
                                                     <<ByClass(W("delivery-option"))>> >>))
    IN  PyDict(s5)

---------------------------------------------------------------------------
(* _extract_specifications                                                 *)

\* the word symbols made of letters (and inner spaces) only
AlphaWords ==
    {"sold", "Sold", "SOLD", "tax", "Tax", "TAX", "vat", "Vat", "VAT", "dni", "day",
     "piece", "per piece", "za szt", "bez podatku", "Bez podatku", "BEZ PODATKU",
     "Free shipping", "free shipping", "FREE SHIPPING",
     "Darmowa dostawa", "darmowa dostawa", "DARMOWA DOSTAWA",
     "Home", "HOME", "home", "Accueil", "accueil", "Startseite", "startseite",
     "Unknown", "Color", "Size", "Brand", "Material", "review", "gallery", "LONGWORD"}

\* len() of a symbol: one character unless it is a word
SymLen(c) ==
    CASE c \in ThreeCharWords -> 3
      [] c \in {"sold", "Sold", "SOLD", "Home", "HOME", "home", "Size"} -> 4
      [] c \in {"piece", "Color", "Brand", "/item/", ".html"} -> 5
      [] c \in {"za szt", "review"} -> 6
      [] c \in {"Accueil", "accueil", "Unknown", "gallery", "/store/"} -> 7
      [] c = "Material" -> 8
      [] c = "per piece" -> 9
      [] c \in {"Startseite", "startseite"} -> 10
      [] c \in {"bez podatku", "Bez podatku", "BEZ PODATKU"} -> 11
      [] c \in {"Free shipping", "free shipping", "FREE SHIPPING"} -> 13
      [] c \in {"Darmowa dostawa", "darmowa dostawa", "DARMOWA DOSTAWA"} -> 15
      [] c = "LONGWORD" -> 250
      [] c = "FILLER" -> 1000
      [] OTHER -> 1

RECURSIVE StrLen(_)
\* len(s), in characters
StrLen(s) == IF s = <<>> THEN 0 ELSE SymLen(Head(s)) + StrLen(Tail(s))

\* [A-Za-z\s]
KeyClass == UpperLetters \cup LowerLetters \cup Whitespace \cup {"\r"} \cup AlphaWords

\* [^\n\r]+
ValueItem == Item({"\n", "\r"}, TRUE, 1, Unbounded, FALSE)

spec_patterns ==
    << \* r'([A-Za-z\s]+):\s*([^\n\r]+)'
       <<Plus(KeyClass), Lit(":"), Star(Whitespace), ValueItem>>,
       \* r'([A-Za-z\s]+)\s*-\s*([^\n\r]+)'
       <<Plus(KeyClass), Star(Whitespace), Lit("-"), Star(Whitespace), ValueItem>> >>

RECURSIVE FindAllPairs(_, _, _)
\* re.findall(pattern, text) for a pattern with two groups, the first item and
\* the last: the successive non-overlapping matches from position p on
FindAllPairs(s, pat, p) ==
    LET Pairs(m) ==
            IF ~m.ok THEN <<>>
            ELSE << <<Group(s, m, 1, 1), Group(s, m, Len(pat), Len(pat))>> >>
                 \o FindAllPairs(s, pat, m.ends[Len(pat)] + 1)
    IN  Pairs(SearchFrom(s, pat, p))

\* for match in matches[:10]
MatchLimit == 10

\* len(key) < 50 and len(value) < 200
MaxKeyLen == 50

MaxValueLen == 200

RECURSIVE StoreMatches(_, _)
\* for match in matches: specs[key.strip()] = value.strip(), within the limits
StoreMatches(matches, specs) ==
    IF matches = <<>> THEN specs
    ELSE LET Store(key, value) ==
                 IF StrLen(key) < MaxKeyLen /\ StrLen(value) < MaxValueLen
                 THEN Put(specs, key, PyStr(value)) ELSE specs
         IN  StoreMatches(Tail(matches),
                          Store(Strip(Head(matches)[1]), Strip(Head(matches)[2])))

RECURSIVE SpecPatternLoop(_, _, _)
\* for pattern in spec_patterns[k..]
SpecPatternLoop(text, k, specs) ==
    IF k > Len(spec_patterns) THEN specs
    ELSE SpecPatternLoop(text, k + 1,
             StoreMatches(FirstN(FindAllPairs(text, spec_patterns[k], 1), MatchLimit), specs))

RECURSIVE SpecRows(_, _, _)
\* for row in rows (of every table): two or more cells with non-empty texts
SpecRows(doc, rows, specs) ==
    IF rows = <<>> THEN specs
    ELSE LET Store(key, value) ==
                 IF key # <<>> /\ value # <<>> THEN Put(specs, key, PyStr(value)) ELSE specs
             Row(cells) ==
                 IF Len(cells) >= 2
                 THEN Store(GetText(doc, cells[1], TRUE), GetText(doc, cells[2], TRUE))
                 ELSE specs
         IN  SpecRows(doc, Tail(rows),
                      Row(Select(doc, Head(rows), << <<ByTag("td")>>, <<ByTag("th")>> >>)))

RECURSIVE SpecTables(_, _, _)
\* for table in spec_tables: rows = table.select('tr')
SpecTables(doc, tables, specs) ==
    IF tables = <<>> THEN specs
    ELSE SpecTables(doc, Tail(tables),
                    SpecRows(doc, Select(doc, Head(tables), Sel1(ByTag("tr"))), specs))

\* _extract_specifications; its keys are strs taken from the page
ExtractSpecifications(doc) ==
    LET s1 == SpecTables(doc, Select(doc, 0,
                      << <<ByClass(W("product-specs")), ByTag("table")>>,
                         <<ByClass(W("specifications")), ByTag("table")>>,
                         <<ByClass(W("product-props")), ByTag("table")>> >>), EmptyMap)
        Description(specs, desc_section) ==
            IF desc_section = 0 THEN specs
            ELSE SpecPatternLoop(GetText(doc, desc_section, FALSE), 1, specs)
    IN  PyDict(Description(s1, SelectOne(doc, 0, << <<ByClass(W("product-description"))>>,
                                                   <<ByClass(W("item-description"))>> >>)))

---------------------------------------------------------------------------
(* _extract_seller_info                                                    *)

\* seller['store_name']: the text of the name element inside the link, else
\* the text of the link when it has any
StoreStoreName(seller, doc, store_link, store_name) ==
    IF store_name # 0 THEN StoreText(seller, "store_name", doc, store_name)
    ELSE IF GetText(doc, store_link, FALSE) # <<>>
         THEN StoreText(seller, "store_name", doc, store_link)
    ELSE seller

\* if store_link: seller['store_url'] = store_link.get('href', ''); store_name ...
StoreStore(seller, doc, store_link) ==
    IF store_link = 0 THEN seller
    ELSE StoreStoreName(Put(seller, "store_url", PyStr(GetAttr(doc[store_link], "href", <<>>))),
                        doc, store_link,
                        SelectOne(doc, store_link, << <<ByClass(W("store-name"))>>,
                                                     <<ByClass(W("seller-name"))>> >>))

\* if elem: m = re.search(r'(\d+(?:\.\d+)?)', elem.get_text()); if m: float(m.group(1))
StoreFloat(m, key, doc, elem) ==
    IF elem = 0 THEN m
    ELSE StoreSome(m, key, FloatMatch(NumberMatch(GetText(doc, elem, FALSE))))

\* the int the first run of digits of text denotes, None without one
IntMatch(text) ==
    LET Number(match) == IF match.ok THEN Some(PyInt(DigitsVal(Group(text, match, 1, 1))))
                         ELSE None
    IN  Number(Search(text, IntPattern))

\* if elem: m = re.search(r'(\d+)', elem.get_text()); if m: int(m.group(1))
StoreInt(m, key, doc, elem) ==
    IF elem = 0 THEN m ELSE StoreSome(m, key, IntMatch(GetText(doc, elem, FALSE)))

\* '.store-followers, .follower-count'
FollowerSelectors == << <<ByClass(W("store-followers"))>>, <<ByClass(W("follower-count"))>> >>

\* _extract_seller_info
ExtractSellerInfo(doc) ==
    LET s2 == StoreStore(EmptyMap, doc,
                         SelectOne(doc, 0, << <<ByAttr("a", "href", "*=", W("/store/"))>>,
                                              <<ByClass(W("store-link"))>>,
                                              <<ByClass(W("seller-link"))>> >>))
        s3 == StoreFloat(s2, "store_rating", doc,
                         SelectOne(doc, 0, << <<ByClass(W("store-rating"))>>,
                                              <<ByClass(W("seller-rating"))>> >>))
        s4 == StoreInt(s3, "followers", doc, SelectOne(doc, 0, FollowerSelectors))
        s5 == StoreInt(s4, "years_in_business", doc,
                       SelectOne(doc, 0, << <<ByClass(W("store-years"))>>,
                                            <<ByClass(W("years-in-business"))>> >>))
    IN  PyDict(s5)

---------------------------------------------------------------------------
(* _extract_javascript_data                                                *)

\* . with re.DOTALL, repeated lazily: .*?
LazyAnyDotAll == Item({}, TRUE, 0, Unbounded, TRUE)

\* js_patterns: key, and the symbol of the assigned global
js_patterns ==
    << <<"runParams", "window.runParams">>,
       <<"DCData", "window._d_c_.DCData">>,
       <<"productData", "window.productData">>,
       <<"pageData", "window.pageData">> >>

\* r'window\.runParams\s*=\s*({.*?});' and its three siblings
JsPattern(global) ==
    <<Lit(global), Star(Whitespace), Lit("="), Star(Whitespace),
      Lit("{"), LazyAnyDotAll, Lit("}"), Lit(";")>>

RECURSIVE JsPatternLoopDiscard(_, _, _)
\* the loop with `except: continue`: a value json.loads rejects is dropped
JsPatternLoopDiscard(content, k, js_data) ==
    IF k > Len(js_patterns) THEN js_data
    ELSE LET Store(match, raw) ==
                 IF match.ok /\ JsonLoads(raw).ok
                 THEN Put(js_data, js_patterns[k][1], JsonLoads(raw).val)
                 ELSE js_data
             At(match) == Store(match, IF match.ok THEN Group(content, match, 5, 7) ELSE <<>>)
         IN  JsPatternLoopDiscard(content, k + 1,
                                  At(Search(content, JsPattern(js_patterns[k][2]))))

RECURSIVE JsPatternLoopKeepFirst(_, _, _)
\* the loop that leaves a key alone once an earlier script block has set it
JsPatternLoopKeepFirst(content, k, js_data) ==
    IF k > Len(js_patterns) THEN js_data
    ELSE LET Value(raw, j) == IF j.ok THEN j.val ELSE PyStr(raw)
             Loads(raw) == Value(raw, JsonLoads(raw))
             Store(match) ==
                 IF match.ok /\ js_patterns[k][1] \notin DOMAIN js_data
                 THEN Put(js_data, js_patterns[k][1], Loads(Group(content, match, 5, 7)))
                 ELSE js_data
         IN  JsPatternLoopKeepFirst(content, k + 1,
                                    Store(Search(content, JsPattern(js_patterns[k][2]))))

RECURSIVE JsPatternLoop(_, _, _)
\* for key, pattern in js_patterns.items(): parsed value, or the raw text when
\* json.loads fails
JsPatternLoop(content, k, js_data) ==
    IF k > Len(js_patterns) THEN js_data
    ELSE LET Value(raw, j) == IF j.ok THEN j.val ELSE PyStr(raw)
             Loads(raw) == Value(raw, JsonLoads(raw))
             Store(match) ==
                 IF match.ok
                 THEN Put(js_data, js_patterns[k][1], Loads(Group(content, match, 5, 7)))
                 ELSE js_data
         IN  JsPatternLoop(content, k + 1,
                           Store(Search(content, JsPattern(js_patterns[k][2]))))

RECURSIVE JsScriptLoop(_, _, _)
\* for script in scripts
JsScriptLoop(doc, scripts, js_data) ==
    IF scripts = <<>> THEN js_data
    ELSE JsScriptLoop(doc, Tail(scripts),
                      JsPatternLoop(GetText(doc, Head(scripts), FALSE), 1, js_data))

\* _extract_javascript_data
ExtractJavascriptData(doc) == PyDict(JsScriptLoop(doc, FindAll(doc, "script"), EmptyMap))

---------------------------------------------------------------------------
(* _extract_meta_tags                                                      *)

RECURSIVE OgTagLoop(_, _, _)
\* for tag in og_tags: meta_data[f'og_{prop}'] = content, if both are non-empty
OgTagLoop(doc, tags, meta_data) ==
    IF tags = <<>> THEN meta_data
    ELSE LET Store(prop, content) ==
                 IF prop # <<>> /\ content # <<>>
                 THEN Put(meta_data, <<"og_">> \o prop, PyStr(content)) ELSE meta_data
         IN  OgTagLoop(doc, Tail(tags),
                       Store(RemoveSym(GetAttr(doc[Head(tags)], "property", <<>>), "og:"),
                             GetAttr(doc[Head(tags)], "content", <<>>)))

RECURSIVE AppTagLoop(_, _, _)
\* for tag in app_tags: app_links[prop] = content, if both are non-empty
AppTagLoop(doc, tags, app_links) ==
    IF tags = <<>> THEN app_links
    ELSE LET Store(prop, content) ==
                 IF prop # <<>> /\ content # <<>>
                 THEN Put(app_links, prop, PyStr(content)) ELSE app_links
         IN  AppTagLoop(doc, Tail(tags),
                        Store(GetAttr(doc[Head(tags)], "property", <<>>),
                              GetAttr(doc[Head(tags)], "content", <<>>)))

important_meta == <<"description", "keywords", "author">>

RECURSIVE ImportantMetaLoop(_, _, _)
\* for meta_name in important_meta[k..]: meta_data[meta_name] = content or ''
ImportantMetaLoop(doc, k, meta_data) ==
    IF k > Len(important_meta) THEN meta_data
    ELSE LET Store(meta_tag) ==
                 IF meta_tag # 0
                 THEN Put(meta_data, W(important_meta[k]),
                          PyStr(GetAttr(doc[meta_tag], "content", <<>>)))
                 ELSE meta_data
         IN  ImportantMetaLoop(doc, k + 1,
                 Store(SelectOne(doc, 0, Sel1(ByAttr("meta", "name", "=",
                                                     W(important_meta[k]))))))

\* _extract_meta_tags; its keys are strs: 'og_' + property, 'app_links', names
ExtractMetaTags(doc) ==
    LET m1 == OgTagLoop(doc, Select(doc, 0, Sel1(ByAttr("meta", "property", "^=", W("og:")))),
                        EmptyMap)
        StoreAppLinks(meta_data, app_links) ==
            IF app_links # EmptyMap THEN Put(meta_data, W("app_links"), PyDict(app_links))
            ELSE meta_data
        m2 == StoreAppLinks(m1, AppTagLoop(doc,
                  Select(doc, 0, Sel1(ByAttr("meta", "property", "^=", W("al:")))), EmptyMap))
    IN  PyDict(ImportantMetaLoop(doc, 1, m2))

---------------------------------------------------------------------------
(* _detect_page_language                                                   *)

\* [ąćęłńóśźż]
PolishChars ==
    {"a-ogonek", "c-acute", "e-ogonek", "l-stroke", "n-acute", "o-acute", "s-acute",
     "z-acute", "z-dot"}

\* [àáâãäåæçèéêëìíîïñòóôõöøùúûüý]
FrenchChars ==
    {"a-grave", "a-acute", "a-circ", "a-tilde", "a-uml", "a-ring", "ae", "c-cedil",
     "e-grave", "e-acute", "e-circ", "e-uml", "i-grave", "i-acute", "i-circ", "i-uml",
     "n-tilde", "o-grave", "o-acute", "o-circ", "o-tilde", "o-uml", "o-slash",
     "u-grave", "u-acute", "u-circ", "u-uml", "y-acute"}

\* [äöüß]
GermanChars == {"a-uml", "o-uml", "u-uml", "eszett"}

\* soup.get_text()[:1000]
SampleLen == 1000

RECURSIVE TakeChars(_, _)
\* s[:n], in characters; a word cut by the limit holds none of the characters
\* the locale classes look for and is left out
TakeChars(s, n) ==
    IF s = <<>> \/ n <= 0 \/ SymLen(Head(s)) > n THEN <<>>
    ELSE <<Head(s)>> \o TakeChars(Tail(s), n - SymLen(Head(s)))

\* _detect_page_language with the German class tested before the French one
DetectPageLanguageGermanFirst(doc) ==
    LET Sample(text_sample) ==
            IF Search(text_sample, <<One(PolishChars)>>).ok THEN PyStr(W("pl"))
            ELSE IF Search(text_sample, <<One(GermanChars)>>).ok THEN PyStr(W("de"))
            ELSE IF Search(text_sample, <<One(FrenchChars)>>).ok THEN PyStr(W("fr"))
            ELSE PyStr(W("en"))
        Meta(lang_meta) ==
            IF lang_meta # 0 THEN PyStr(GetAttr(doc[lang_meta], "content", <<>>))
            ELSE Sample(TakeChars(GetText(doc, 0, FALSE), SampleLen))
        Html(html_tag) ==
            IF html_tag # 0 /\ GetAttr(doc[html_tag], "lang", <<>>) # <<>>
            THEN PyStr(GetAttr(doc[html_tag], "lang", <<>>))
            ELSE Meta(SelectOne(doc, 0, Sel1(ByAttr("meta", "name", "=", W("language")))))
    IN  Html(SelectOne(doc, 0, Sel1(ByTag("html"))))

\* _detect_page_language
DetectPageLanguage(doc) ==
    LET Sample(text_sample) ==
            IF Search(text_sample, <<One(PolishChars)>>).ok THEN PyStr(W("pl"))
            ELSE IF Search(text_sample, <<One(FrenchChars)>>).ok THEN PyStr(W("fr"))
            ELSE IF Search(text_sample, <<One(GermanChars)>>).ok THEN PyStr(W("de"))
            ELSE PyStr(W("en"))
        Meta(lang_meta) ==
            IF lang_meta # 0 THEN PyStr(GetAttr(doc[lang_meta], "content", <<>>))
            ELSE Sample(TakeChars(GetText(doc, 0, FALSE), SampleLen))
        Html(html_tag) ==
            IF html_tag # 0 /\ GetAttr(doc[html_tag], "lang", <<>>) # <<>>
            THEN PyStr(GetAttr(doc[html_tag], "lang", <<>>))
            ELSE Meta(SelectOne(doc, 0, Sel1(ByAttr("meta", "name", "=", W("language")))))
    IN  Html(SelectOne(doc, 0, Sel1(ByTag("html"))))

---------------------------------------------------------------------------
(* _extract_all_data                                                       *)

DigitSym(d) == <<"0", "1", "2", "3", "4", "5", "6", "7", "8", "9">>[d + 1]

RECURSIVE DigitStr(_)
\* str(n) for n >= 0
DigitStr(n) == IF n < 10 THEN <<DigitSym(n)>> ELSE DigitStr(n \div 10) \o <<DigitSym(n % 10)>>

\* datetime.now().isoformat(), for the reading `now` of the clock
IsoFormat(now) == PyStr(<<"T">> \o DigitStr(now))

RecordKeys ==
    {"url", "basic_info", "pricing", "reviews_and_ratings", "product_variations", "images",
     "shipping_info", "specifications", "seller_info", "javascript_data", "meta_tags",
     "scraping_timestamp", "page_language"}

\* the dict literal with the entry of the page language left out
AssembleWithoutLanguage(url, basic, pricing, reviews, variations, images, shipping, specs, seller, js, meta, now, language) ==
    [k \in RecordKeys \ {"page_language"} |->
        CASE k = "url" -> PyStr(url)
          [] k = "basic_info" -> basic
          [] k = "pricing" -> pricing
          [] k = "reviews_and_ratings" -> reviews
          [] k = "product_variations" -> variations
          [] k = "images" -> images
          [] k = "shipping_info" -> shipping
          [] k = "specifications" -> specs
          [] k = "seller_info" -> seller
          [] k = "javascript_data" -> js
          [] k = "meta_tags" -> meta
          [] k = "scraping_timestamp" -> IsoFormat(now)]

\* the dict literal of _extract_all_data, given the value of each entry
AssembleRecord(url, basic, pricing, reviews, variations, images, shipping, specs, seller, js, meta, now, language) ==
    [k \in RecordKeys |->
        CASE k = "url" -> PyStr(url)
          [] k = "basic_info" -> basic
          [] k = "pricing" -> pricing
          [] k = "reviews_and_ratings" -> reviews
          [] k = "product_variations" -> variations
          [] k = "images" -> images
          [] k = "shipping_info" -> shipping
          [] k = "specifications" -> specs
          [] k = "seller_info" -> seller
          [] k = "javascript_data" -> js
          [] k = "meta_tags" -> meta
          [] k = "scraping_timestamp" -> IsoFormat(now)
          [] k = "page_language" -> language]

\* _extract_all_data: the record, or the exception an extractor let out
ExtractAllData(doc, url, drv, now) ==
    LET Raise(rec) == IF \E k \in DOMAIN rec : rec[k].kind = "exception" THEN PyException
                      ELSE PyDict(rec)
    IN  Raise(AssembleRecord(url, ExtractBasicInfo(doc, drv), ExtractPricing(doc),
                             ExtractReviewsAndRatings(doc), ExtractProductVariations(doc),
                             ExtractImages(doc), ExtractShippingInfo(doc),
                             ExtractSpecifications(doc), ExtractSellerInfo(doc),
                             ExtractJavascriptData(doc), ExtractMetaTags(doc), now,
                             DetectPageLanguage(doc)))

---------------------------------------------------------------------------
(* float: IEEE 754 binary64.  A double is 0 or bits * 2^exp, bits being    *)
(* the 53 bits of its significand, most significant first.                 *)

RECURSIVE IntBits(_)
\* the bits of n >= 0, most significant first; none for 0
IntBits(n) == IF n = 0 THEN <<>> ELSE Append(IntBits(n \div 2), n % 2)

Zeros(n) == [i \in 1..n |-> 0]

RECURSIVE StripZeros(_)
StripZeros(bits) ==
    IF bits # <<>> /\ Head(bits) = 0 THEN StripZeros(Tail(bits)) ELSE bits

RECURSIVE Increment(_)
\* bits + 1
Increment(bits) ==
    IF bits = <<>> THEN <<1>>
    ELSE IF bits[Len(bits)] = 0 THEN Append(SubSeq(bits, 1, Len(bits) - 1), 1)
    ELSE Append(Increment(SubSeq(bits, 1, Len(bits) - 1)), 0)

Precision == 53

DoubleZero == [zero |-> TRUE, bits |-> <<>>, exp |-> 0]

\* the double of the significand m, which may have one bit too many after a
\* carry out of the rounding
Renormalized(m, exp) ==
    IF Len(m) > Precision THEN [zero |-> FALSE, bits |-> SubSeq(m, 1, Precision), exp |-> exp + 1]
    ELSE [zero |-> FALSE, bits |-> m, exp |-> exp]

\* round to nearest, ties to even: the double nearest to bits * 2^exp (bits
\* with a leading 1), `sticky` telling that the exact value is a little more
RoundToDouble(bits, sticky, exp) ==
    IF Len(bits) <= Precision
    THEN [zero |-> FALSE, bits |-> bits \o Zeros(Precision - Len(bits)),
          exp |-> exp - (Precision - Len(bits))]
    ELSE Renormalized(
             IF /\ bits[Precision + 1] = 1
                /\ \/ sticky
                   \/ bits[Precision] = 1
                   \/ \E i \in (Precision + 2)..Len(bits) : bits[i] = 1
             THEN Increment(SubSeq(bits, 1, Precision))
             ELSE SubSeq(bits, 1, Precision),
             exp + (Len(bits) - Precision))

\* a significand is worked on ten bits at a time
LimbBits == 10

Limb == 2 ^ LimbBits

\* the bits of n < Limb, all ten of them
LimbOfInt(n) == [j \in 1..LimbBits |-> (n \div (2 ^ (LimbBits - j))) % 2]

RECURSIVE FractionBits(_, _, _, _)
\* the bits of r / d (r < d) after the binary point, until the fraction is
\* exhausted or at least two significant bits more than the precision are
\* known (sig: the significant bits so far)
FractionBits(r, d, acc, sig) ==
    LET Next10(q) ==
            FractionBits((r * Limb) % d, d, acc \o LimbOfInt(q),
                         IF sig > 0 THEN sig + LimbBits ELSE Len(IntBits(q)))
    IN  IF r = 0 \/ sig >= Precision + 2 THEN [bits |-> acc, rem |-> r]
        ELSE Next10((r * Limb) \div d)

\* the double nearest to n / d
DoubleOfQuotient(n, d) ==
    LET Rounded(whole, f) ==
            RoundToDouble(StripZeros(whole \o f.bits), f.rem # 0, 0 - Len(f.bits))
        From(whole) == Rounded(whole, FractionBits(n % d, d, <<>>, Len(whole)))
    IN  IF n = 0 THEN DoubleZero ELSE From(IntBits(n \div d))

RECURSIVE BitsVal(_)
\* the number whose bits these are
BitsVal(bits) ==
    IF bits = <<>> THEN 0 ELSE 2 * BitsVal(SubSeq(bits, 1, Len(bits) - 1)) + bits[Len(bits)]

\* bits as numbers below Limb, most significant first
Limbs(bits) ==
    LET Split(padded) ==
            [i \in 1..(Len(padded) \div LimbBits) |->
                BitsVal(SubSeq(padded, LimbBits * (i - 1) + 1, LimbBits * i))]
    IN  Split(Zeros((LimbBits - (Len(bits) % LimbBits)) % LimbBits) \o bits)

BitsOfLimbs(ls) ==
    StripZeros([j \in 1..(LimbBits * Len(ls)) |->
                   LimbOfInt(ls[((j - 1) \div LimbBits) + 1])[((j - 1) % LimbBits) + 1]])

RECURSIVE TimesAdd(_, _, _, _)
\* ds * c + carry, ds and the result being digits to the given base
TimesAdd(ds, base, c, carry) ==
    LET Step(front, t) == Append(TimesAdd(front, base, c, t \div base), t % base)
    IN  IF ds # <<>> THEN Step(SubSeq(ds, 1, Len(ds) - 1), ds[Len(ds)] * c + carry)
        ELSE IF carry = 0 THEN <<>>
        ELSE Step(<<>>, carry)

\* bits * c, exactly
TimesSmall(bits, c) == BitsOfLimbs(TimesAdd(Limbs(bits), Limb, c, 0))

\* x * c for a double x and an int c >= 1, as a double
DoubleTimes(x, c) ==
    IF x.zero THEN x ELSE RoundToDouble(TimesSmall(x.bits, c), FALSE, x.exp)

RECURSIVE DecimalOfLimbs(_)
\* the decimal digits (numbers 0..9) of the number with these limbs
DecimalOfLimbs(ls) ==
    IF ls = <<>> THEN <<>>
    ELSE TimesAdd(DecimalOfLimbs(SubSeq(ls, 1, Len(ls) - 1)), 10, Limb, ls[Len(ls)])

DecimalOfBits(bits) == DecimalOfLimbs(Limbs(bits))

\* int(x) for a double x >= 0: its whole part, as decimal digit symbols ('0'
\* for zero).  A Python int has no width, so it is kept as its digits.
IntOfDouble(x) ==
    LET Symbols(ds) == IF ds = <<>> THEN <<"0">> ELSE [i \in DOMAIN ds |-> DigitSym(ds[i])]
        Whole(bits) == Symbols(DecimalOfBits(bits))
    IN  IF x.zero THEN <<"0">>
        ELSE IF x.exp >= 0 THEN Whole(x.bits \o Zeros(x.exp))
        ELSE Whole(SubSeq(x.bits, 1, Precision + x.exp))

---------------------------------------------------------------------------
(* AliExpressDataAnalyzer._extract_number_from_text (src/data_analyzer.py) *)

\* the characters re.sub(r'[^\d.KMkm]', '', text) keeps
NumberChars == Digits \cup {".", "K", "M", "k", "m"}

\* re.sub(r'[^\d.KMkm]', '', text); a word symbol holds none of the characters
\* kept and goes as a whole
CleanNumberText(text) == SelectSeq(text, LAMBDA c : c \in NumberChars)

\* an int too long to be kept as a number: its decimal digits
PyLong(ds) == [kind |-> "int", val |-> ds]

RECURSIVE PowerOfTen(_)
PowerOfTen(k) == IF k = 0 THEN 1 ELSE 10 * PowerOfTen(k - 1)

\* float(s) for s of digits and points: digits with at most one point among
\* them parse, anything else is the ValueError (ok = FALSE)
FloatOfText(s) ==
    LET points == {i \in DOMAIN s : s[i] = "."}
        digits == SelectSeq(s, LAMBDA c : c \in Digits)
        Fraction(p) == IF p = {} THEN 0 ELSE Len(s) - (CHOOSE i \in p : TRUE)
    IN  IF /\ \A i \in DOMAIN s : s[i] \in Digits \cup {"."}
           /\ Cardinality(points) <= 1
           /\ digits # <<>>
        THEN [ok |-> TRUE,
              val |-> DoubleOfQuotient(DigitsVal(digits), PowerOfTen(Fraction(points)))]
        ELSE [ok |-> FALSE, val |-> DoubleZero]

\* int(float(clean_text) * multiplier), None on the ValueError
NumberTimes(clean_text, multiplier) ==
    LET Times(f) == IF f.ok THEN PyLong(IntOfDouble(DoubleTimes(f.val, multiplier)))
                    ELSE PyNone
    IN  Times(FloatOfText(clean_text))

\* _extract_number_from_text(text)
ExtractNumberFromText(text) ==
    LET Suffixed(clean_text, last) ==
            IF last \in {"k", "K"}
            THEN NumberTimes(SubSeq(clean_text, 1, Len(clean_text) - 1), 1000)
            ELSE IF last \in {"m", "M"}
            THEN NumberTimes(SubSeq(clean_text, 1, Len(clean_text) - 1), 1000000)
            ELSE NumberTimes(clean_text, 1)
        Cleaned(clean_text) ==
            Suffixed(clean_text, IF clean_text = <<>> THEN "" ELSE clean_text[Len(clean_text)])
    IN  IF text = <<>> THEN PyNone ELSE Cleaned(CleanNumberText(text))

---------------------------------------------------------------------------
(* The scraper object and the site it visits                               *)

\* 'https://.../item/<id>.html' and a URL without an item id
ItemUrl(id) == <<"https://www.aliexpress.com", "/item/">> \o id \o <<".html">>

HomeUrl == <<"https://www.aliexpress.com", "/">>

Urls == {ItemUrl(<<"1", "2">>), HomeUrl}

\* the browser's URL before the first navigation
BlankUrl == <<"data:,">>

\* the site: the document it serves and the URL the browser ends on (<<>>: the
\* requested one, no redirect)
Site(doc, landing) == [doc |-> doc, landing |-> landing]

Landing(url) == IF site.landing = <<>> THEN url ELSE site.landing

---------------------------------------------------------------------------
(* Pages.  A page is put together from fragments: an element with the      *)
(* elements below it, parents counted from the fragment's first element.   *)

\* a fragment placed after `off` elements, under the element top (0: none)
Shift(frag, off, top) ==
    [i \in DOMAIN frag |->
        [frag[i] EXCEPT !.parent = IF @ = 0 THEN top ELSE @ + off]]

RECURSIVE Frags(_)
\* the page made of the fragments fs, one after the other
Frags(fs) ==
    IF fs = <<>> THEN <<>>
    ELSE LET before == Frags(SubSeq(fs, 1, Len(fs) - 1))
         IN  before \o Shift(fs[Len(fs)], Len(before), 0)

\* the element n with the fragments fs as its children
Under(n, fs) == <<n>> \o Shift(Frags(fs), 1, 1)

\* an element without children, as a fragment
Leaf(tag, classes, attrs, text) == <<Node(tag, classes, attrs, text, 0)>>

\* the sequences of 1..n different elements of S
RECURSIVE SeqsUpTo(_, _)
SeqsUpTo(S, n) ==
    IF n = 0 THEN {}
    ELSE LET shorter == SeqsUpTo(S, n - 1)
             More(q) == {Append(q, x) : x \in {y \in S : \A i \in DOMAIN q : q[i] # y}}
         IN  {<<x>> : x \in S} \cup shorter \cup UNION {More(q) : q \in shorter}

\* the number of fragments on a page of a family
MaxFrags == 2

\* the pages made of 1..MaxFrags different fragments of F, in every order
Family(F) == {Frags(fs) : fs \in SeqsUpTo(F, MaxFrags)}

\* attributes name1 = val1, name2 = val2
Attr2(name1, val1, name2, val2) == [x \in {name1, name2} |-> IF x = name1 THEN val1 ELSE val2]

Txt_Mouse == <<" ", "W", "i", "r", "e", " ", "M", "o", "u", "s", "e", "\n">>

Txt_Price == <<"$", "9", ".", "9", "9">>

\* title candidates for the first, third and fourth selector
TitleFrags ==
    { Leaf("h1", <<>>, Attr1("data-pl", W("product-title")), Txt_Mouse),
      Leaf("div", <<W("x"), W("product-title")>>, NoAttrs, <<"C", " ">>),
      Leaf("h1", <<>>, Attr1("data-pl", W("other")), <<"D">>) }

Title_NoText == Leaf("h1", <<>>, Attr1("data-pl", W("product-title")), <<>>)

Title_Wrapped ==
    Under(Node("div", <<W("title--wrap--UUHae_g")>>, NoAttrs, <<>>, 0),
          <<Leaf("h1", <<>>, NoAttrs, <<"B">>)>>)

\* the title families, a first-selector match without text, and the second selector
TitlePages ==
    Family(TitleFrags)
    \cup {Frags(<<Title_Wrapped, Title_NoText>>), Frags(<<Title_Wrapped>>),
          Frags(<<Leaf("div", <<W("x"), W("product-title")>>, NoAttrs, <<"C", " ">>),
                  Title_Wrapped>>)}

Price_Nested ==
    Under(Node("div", <<>>, Attr1("data-pl", W("product-price")), <<>>, 0),
          <<Under(Node("div", <<W("price--current--I3Zeidd")>>, NoAttrs, <<>>, 0),
                  <<Leaf("span", <<>>, NoAttrs, <<"EUR_SIGN", "7">>)>>)>>)

\* current-price candidates for the first, second and fourth selector
PriceFrags ==
    { Leaf("span", <<W("product-price-value")>>, NoAttrs, Txt_Price),
      Leaf("div", <<W("price--currentPriceText--V8_y_b5")>>, NoAttrs,
           <<"U", "S", "D", " ", "5">>),
      Price_Nested }

Price_Blank == Leaf("div", <<W("pdp-comp-price-current")>>, NoAttrs, <<" ">>)

\* the price families, and a third-selector match with blank text
PricePages ==
    Family(PriceFrags) \cup {Frags(<<Price_Blank>>), Frags(<<Price_Nested, Price_Blank>>)}

\* a page without a price: an original price, a bulk price, a discount, a tax
\* note; and the same page with a price in front
Price_Others ==
    << Leaf("span", <<W("price--originalPrice")>>, NoAttrs, <<"$", "1", "2">>),
       Leaf("div", <<>>, NoAttrs, <<" ", "$", "5", " ", "per piece">>),
       Leaf("span", <<W("discount-percent")>>, NoAttrs, <<"-", "2", "0", "%">>),
       Leaf("p", <<>>, NoAttrs, <<" ", "VAT", " ">>) >>

NoPricePages ==
    {Frags(Price_Others),
     Frags(<<Leaf("span", <<W("product-price-value")>>, NoAttrs, Txt_Price)>> \o Price_Others)}

Price_Span(price) == Leaf("span", <<W("product-price-value")>>, NoAttrs, price)

Currency_Meta ==
    Leaf("meta", <<>>, Attr2("property", <<"og:", "price:currency">>, "content", <<"P", "L", "N">>), <<>>)

\* prices with and without a leading currency token, on pages that name a
\* language and a currency elsewhere
CurrencyPages ==
    { Under(Node("html", <<>>, Attr1("lang", W("pl")), <<>>, 0),
            <<Currency_Meta, Price_Span(<<"9", ".", "9", "9">>)>>),
      Under(Node("html", <<>>, Attr1("lang", W("de")), <<>>, 0),
            <<Currency_Meta, Price_Span(Txt_Price)>>),
      Frags(<<Price_Span(<<"5", " ", "U", "S", "D">>)>>),
      Frags(<<Price_Span(<<"U", "S", "5">>)>>),
      Frags(<<Price_Span(<<"u", "s", "d", " ", "5">>)>>),
      Frags(<<Price_Span(<<"U", "S", "D", "T", " ", "5">>)>>) }

\* one candidate per original-price selector
OriginalPriceFrags ==
    { Leaf("span", <<W("price--originalPrice")>>, NoAttrs, <<"$", "1", "2">>),
      Leaf("span", <<W("product-price-original")>>, NoAttrs, <<"$", "1", "3", " ">>),
      Leaf("span", <<W("price--lineThrough"), W("sale-percent")>>, NoAttrs,
           <<"-", "2", "0", "%">>) }

\* review-count candidates: with and without a digit in the text
ReviewFrags ==
    { Leaf("a", <<>>, Attr1("href", <<"#", "review", "s">>), <<"R", "e", "v">>),
      Leaf("span", <<W("reviewer--reviews--cx7Zs_V")>>, NoAttrs, <<"3", "4">>),
      Leaf("div", <<W("review-count")>>, NoAttrs, <<"(", "5", "6", ")">>) }

Review_Link ==
    Leaf("a", <<>>, Attr1("href", <<"#", "review", "s">>), <<"1", "2", " ", "review", "s">>)

\* the review-count families, a review link with a number, and a count
\* written with a suffix
ReviewCountPages ==
    Family(ReviewFrags)
    \cup {Frags(<<Review_Link>>),
          Frags(<<Leaf("div", <<W("review-count")>>, NoAttrs, <<"1", "2", ".", "5", "k">>)>>),
          Frags(<<Leaf("span", <<W("reviewer--reviews--cx7Zs_V")>>, NoAttrs, <<"3", "4">>),
                  Review_Link>>)}

\* sold-count candidates: with 'sold' and a digit, without a digit, without 'sold'
SoldFrags ==
    { Leaf("span", <<<<"reviewer--", "sold", "--ytPeoEy">>>>, NoAttrs,
           <<"m", "a", "n", "y", " ", "sold">>),
      Leaf("div", <<<<"product-", "sold", "-count">>>>, NoAttrs, <<"3", "0", "0", " ", "Sold">>),
      Leaf("div", <<<<"x", "sold">>>>, NoAttrs, <<"7">>) }

Sold_Hundred ==
    Leaf("span", <<<<"reviewer--", "sold", "--ytPeoEy">>>>, NoAttrs,
         <<"1", "0", "0", " ", "sold">>)

\* the sold-count families, a first-selector match with a number, and a
\* count written with a suffix
SoldCountPages ==
    Family(SoldFrags)
    \cup {Frags(<<Sold_Hundred>>),
          Frags(<<Leaf("div", <<<<"product-", "sold", "-count">>>>, NoAttrs,
                       <<"3", ".", "2", "m", " ", "sold">>)>>),
          Frags(<<Leaf("div", <<<<"product-", "sold", "-count">>>>, NoAttrs,
                       <<"3", "0", "0", " ", "Sold">>),
                  Sold_Hundred>>)}

Image_Product ==
    Under(Node("div", <<W("product-main-image")>>, NoAttrs, <<>>, 0),
          <<Leaf("img", <<>>, Attr1("src", W("b.jpg")), <<>>)>>)

\* main-image candidates: with a src and without one
MainImageFrags ==
    { Leaf("img", <<W("magnifier--image--EYYoSlr")>>, Attr1("src", W("a.jpg")), <<>>),
      Leaf("img", <<W("magnifier--image--EYYoSlr")>>, NoAttrs, <<>>),
      Image_Product }

Image_EmptySrc ==
    Under(Node("div", <<W("main-image")>>, NoAttrs, <<>>, 0),
          <<Leaf("img", <<>>, Attr1("src", <<>>), <<>>)>>)

\* the main-image families, and an image with an empty src
MainImagePages ==
    Family(MainImageFrags)
    \cup {Frags(<<Image_EmptySrc>>), Frags(<<Image_EmptySrc, Image_Product>>)}

\* brand candidates: without text or data-brand, with text, with data-brand only
BrandFrags ==
    { Leaf("span", <<W("product-brand")>>, NoAttrs, <<>>),
      Leaf("span", <<W("brand-name")>>, NoAttrs, <<"B">>),
      Leaf("span", <<>>, Attr1("data-brand", <<"Z">>), <<>>) }

Brand_Acme == Leaf("span", <<W("product-brand")>>, NoAttrs, <<" ", "A", "c", "m", "e", " ">>)

Brand_Maker == Leaf("span", <<W("manufacturer")>>, NoAttrs, <<"M">>)

\* the brand families, a first-selector match with text, and the last selector
BrandPages ==
    Family(BrandFrags)
    \cup {Frags(<<Brand_Acme>>), Frags(<<Brand_Maker>>), Frags(<<Brand_Maker, Brand_Acme>>)}

Script_Id == Leaf("script", <<>>, NoAttrs, <<"productId", ":", " ", "7", "7">>)

\* product-id sources on the page: og:url metas with and without an id, a script
ProductIdFrags ==
    { Leaf("meta", <<>>, Attr2("property", <<"og:", "url">>,
                               "content", ItemUrl(<<"1", "0", "0", "5">>)), <<>>),
      Leaf("meta", <<>>, Attr2("property", <<"og:", "url">>, "content", HomeUrl), <<>>),
      Script_Id }

\* the product-id families, and a script without an id before one with an id
ProductIdPages ==
    Family(ProductIdFrags)
    \cup {Frags(<<Leaf("script", <<>>, NoAttrs, <<"v", "a", "r", " ", "x">>), Script_Id>>)}

\* the option elements of a variation item
Opt_Image ==
    Under(Node("div", <<>>, Attr1("data-sku-col", W("1")), <<>>, 0),
          <<Leaf("img", <<>>, Attr2("src", W("a.jpg"), "alt", <<"r", "e", "d">>), <<>>)>>)

Opt_BareImage ==
    Under(Node("div", <<>>, Attr1("data-sku-col", W("2")), <<>>, 0),
          <<Leaf("img", <<>>, NoAttrs, <<>>)>>)

Opt_Text == Leaf("div", <<>>, Attr1("data-sku-col", W("3")), <<" ", "B", "l", "u", "e">>)

Opt_Selected ==
    Leaf("div", <<<<"sku-item--", "selected", "--ITGY_EO">>>>, Attr1("data-sku-col", W("4")),
         <<>>)

Opt_SoldOut ==
    Leaf("div", <<<<"sku-item--", "sold", "Out", "--YJfuCGq">>>>,
         Attr1("data-sku-col", W("5")), <<>>)

Opt_Empty == Leaf("div", <<>>, Attr1("data-sku-col", W("6")), <<" ">>)

Opt_Class == Leaf("div", <<W("variation-option")>>, NoAttrs, <<"L">>)

\* a variation item: its title element (none for <<>>) and its option elements
SkuItem(cls, title, opts) == Under(Node("div", <<W(cls)>>, NoAttrs, <<>>, 0), title \o opts)

SkuTitle(cls, text) == <<Leaf("div", <<W(cls)>>, NoAttrs, text)>>

Sku_SizeDropped ==
    SkuItem("sku-item--wrap--t9Qszzx", SkuTitle("sku-item--title--Z0HLO87", <<"Size">>),
            <<Opt_Empty>>)

\* variation items: two named Color, and one named Size whose options are all
\* dropped
SkuItemFrags ==
    { SkuItem("sku-item--wrap--t9Qszzx", SkuTitle("sku-item--title--Z0HLO87", <<"Color", ":">>),
              <<Opt_Image, Opt_Text, Opt_BareImage>>),
      SkuItem("sku-item", SkuTitle("variation-title", <<" ", "Color", " ", ":", " ">>),
              <<Opt_Selected, Opt_SoldOut>>),
      Sku_SizeDropped }

Sku_SizeBare == SkuItem("sku-item", SkuTitle("variation-title", <<"Size">>), <<>>)

Sku_SizeClass == SkuItem("sku-item", SkuTitle("variation-title", <<"Size", ":">>), <<Opt_Class>>)

SkuWrapper == Node("div", <<W("sku--wrap--xgoW06M")>>, NoAttrs, <<>>, 0)

\* a wrapper holding 1..MaxFrags variation items, and wrappers with an item
\* named Size that has no option element and one that has an option
VariationPages ==
    {Under(SkuWrapper, fs) : fs \in SeqsUpTo(SkuItemFrags, MaxFrags)}
    \cup {Under(SkuWrapper, <<Sku_SizeBare>>), Under(SkuWrapper, <<Sku_SizeBare, Sku_SizeClass>>),
          Under(SkuWrapper, <<Sku_SizeClass, Sku_SizeDropped>>)}

\* the max attribute of the quantity input: an int literal, literals int()
\* accepts after stripping, and one it rejects; <<>>: an empty attribute
MaxValues == {<<"5">>, <<" ", "7", " ">>, <<"1", "_", "0">>, <<"a", "b", "c">>, <<>>}

\* a page with a variation, the current selection and a quantity element
QuantityPage(quantity) ==
    Frags(<< Under(SkuWrapper,
                   <<SkuItem("sku-item", SkuTitle("variation-title", <<"Color">>),
                             <<Opt_Selected, Opt_Text>>)>>),
             Leaf("span", <<W("current-sku")>>, NoAttrs, <<" ", "R", "e", "d">>),
             quantity >>)

QuantityPages ==
    {QuantityPage(Leaf("input", <<>>, Attr2("name", W("quantity"), "max", v), <<>>)) :
        v \in MaxValues}
    \cup {QuantityPage(Leaf("input", <<>>, Attr1("name", W("quantity")), <<>>)),
          QuantityPage(Leaf("div", <<W("quantity-selector")>>, Attr1("max", <<"9">>), <<>>)),
          Under(Node("div", <<W("product-sku")>>, NoAttrs, <<>>, 0),
                <<SkuItem("sku-item", <<>>, <<Opt_Text>>)>>),
          Under(Node("div", <<W("sku-wrap")>>, NoAttrs, <<>>, 0),
                <<SkuItem("sku-item", SkuTitle("variation-title", W("max_quantity")),
                          <<Opt_Text>>)>>)}

\* variation items titled like the two other keys of product_variations, with
\* the current selection and a quantity input on the page
ReservedTitlePage(max) ==
    Frags(<< Under(SkuWrapper,
                   <<SkuItem("sku-item", SkuTitle("variation-title", W("current_selection")),
                             <<Opt_Text>>),
                     SkuItem("sku-item", SkuTitle("variation-title", W("max_quantity")),
                             <<Opt_Class>>)>>),
             Leaf("span", <<W("current-sku")>>, NoAttrs, <<" ", "R", "e", "d">>),
             Leaf("input", <<>>, Attr2("name", W("quantity"), "max", max), <<>>) >>)

ReservedTitlePages == {ReservedTitlePage(<<"5">>), ReservedTitlePage(<<"a", "b", "c">>)}

\* breadcrumbs and the category meta tag
Crumb(text) == Leaf("a", <<>>, NoAttrs, text)

CategoryPages ==
    { Under(Node("nav", <<W("breadcrumb")>>, NoAttrs, <<>>, 0),
            <<Crumb(<<"Home">>), Crumb(<<" ", "T", "o", "y", "s">>), Crumb(<<"Accueil">>)>>),
      Under(Node("nav", <<W("nav-breadcrumb")>>, NoAttrs, <<>>, 0),
            <<Crumb(<<"HOME">>), Crumb(<<"Startseite">>)>>),
      Frags(<< Under(Node("nav", <<W("breadcrumb")>>, NoAttrs, <<>>, 0),
                     <<Crumb(<<"T", "o", "y", "s">>)>>),
               Leaf("meta", <<>>, Attr2("name", W("category"), "content", <<"G">>), <<>>) >>),
      Leaf("meta", <<>>, Attr1("name", W("category")), <<>>) }

\* the store block: link, name, rating, followers, years
SellerPages ==
    { Frags(<< Under(Node("a", <<>>, Attr1("href", <<"/store/", "1", "2">>), <<>>, 0),
                     <<Leaf("span", <<W("store-name")>>, NoAttrs, <<" ", "S", "h", "o", "p">>)>>),
               Leaf("div", <<W("store-rating")>>, NoAttrs, <<"9", "7", ".", "5", "0", "%">>),
               Leaf("div", <<W("store-followers")>>, NoAttrs, <<"1", "2", "0", "0", " ", "f">>),
               Leaf("div", <<W("store-years")>>, NoAttrs, <<"3", " ", "y">>) >>),
      Frags(<< Leaf("a", <<W("store-link")>>, NoAttrs, <<" ", "M", "y", " ">>),
               Leaf("div", <<W("seller-rating")>>, NoAttrs, <<"n", "/", "a">>),
               Leaf("div", <<W("follower-count")>>, NoAttrs, <<"m", "a", "n", "y">>),
               Leaf("div", <<W("years-in-business")>>, NoAttrs, <<"0", "8">>) >>),
      Leaf("a", <<W("seller-link")>>, Attr1("href", <<"/", "s">>), <<>>),
      Frags(<< Leaf("div", <<W("store-followers")>>, NoAttrs, <<"3", ".", "2", "m">>) >>) }

\* the overall rating and individual reviews
ReviewItem(cls, parts) == Under(Node("div", <<W(cls)>>, NoAttrs, <<>>, 0), parts)

ReviewPages ==
    { Frags(<< Leaf("strong", <<>>, NoAttrs, <<" ", "4", ".", "5", "0">>),
               ReviewItem("review-item",
                   << Leaf("span", <<W("reviewer-info")>>, NoAttrs, <<"A", " ">>),
                      Leaf("p", <<W("review-text")>>, NoAttrs, <<"o", "k">>),
                      Leaf("i", <<<<"s", "5">>, W("rating")>>, NoAttrs, <<>>),
                      Leaf("span", <<W("sku-info")>>, NoAttrs, <<"X", "L">>),
                      Under(Node("div", <<W("review-image")>>, NoAttrs, <<>>, 0),
                            << Leaf("img", <<>>, Attr1("src", W("c.jpg")), <<>>),
                               Leaf("img", <<>>, Attr1("data-src", W("d.jpg")), <<>>),
                               Leaf("img", <<>>, NoAttrs, <<>>) >>) >>),
               ReviewItem("feedback-item", <<Leaf("i", <<W("stars"), <<"4">>>>, NoAttrs, <<>>)>>),
               ReviewItem("feedback-item",
                   <<Leaf("i", <<<<"r", "3", ".", "5">>, W("stars")>>, NoAttrs, <<>>)>>) >>),
      Under(Node("strong", <<>>, NoAttrs, <<>>, 0),
            <<Leaf("b", <<>>, NoAttrs, <<"4", ".", "8">>), Leaf("b", <<>>, NoAttrs, <<"x">>)>>),
      Under(Node("strong", <<>>, NoAttrs, <<>>, 0),
            <<Leaf("b", <<>>, NoAttrs, <<"v", "4", ".", "2", "5">>)>>) }

\* the number of review blocks on a page that has more than the limit
MaxBlocks == 12

\* review block number i, with its number as the review text
NumberedReview(i) ==
    ReviewItem("review-item", <<Leaf("p", <<W("review-text")>>, NoAttrs, DigitStr(i))>>)

\* n review blocks in a row; those numbered in `blank` hold nothing a review
\* is made of
ReviewRow(n, blank) ==
    Frags([i \in 1..n |-> IF i \in blank THEN ReviewItem("feedback-item", <<>>)
                          ELSE NumberedReview(i)])

\* as many blocks as the limit, more than the limit, and more than the limit
\* with a blank block among the first ten
ManyReviewPages ==
    {ReviewRow(ReviewLimit, {}), ReviewRow(MaxBlocks, {}), ReviewRow(MaxBlocks, {3})}

\* shipping texts and blocks
ShippingPages ==
    { Frags(<< Leaf("p", <<>>, NoAttrs, <<" ", "Free shipping", " ">>),
               Leaf("p", <<>>, NoAttrs,
                    <<"J", "u", "l", " ", "1", "8", " ", "-", " ", "A", "u", "g", " ", "0", "4">>),
               Leaf("div", <<W("delivery-location")>>, NoAttrs, <<"P", "L">>),
               Leaf("div", <<W("shipping-cost")>>, NoAttrs, <<"$", "2">>),
               Leaf("div", <<W("shipping-method")>>, NoAttrs, <<"S", "t", "d">>),
               Leaf("div", <<W("delivery-option")>>, NoAttrs, <<" ">>) >>),
      Frags(<< Leaf("p", <<>>, NoAttrs, <<"5", " ", "dni">>),
               Leaf("p", <<>>, NoAttrs, <<" ", "7", "-", "1", "5", " ", "day", "s", "\n">>),
               Leaf("div", <<W("delivery-option")>>, NoAttrs, <<>>) >>) }

\* a specification table and a description with key-value lines
SpecificationPages ==
    { Frags(<< Under(Node("div", <<W("product-specs")>>, NoAttrs, <<>>, 0),
                     <<Under(Node("table", <<>>, NoAttrs, <<>>, 0),
                             << Under(Node("tr", <<>>, NoAttrs, <<>>, 0),
                                      << Leaf("td", <<>>, NoAttrs, <<"Brand">>),
                                         Leaf("td", <<>>, NoAttrs, <<" ", "X">>) >>),
                                Under(Node("tr", <<>>, NoAttrs, <<>>, 0),
                                      <<Leaf("th", <<>>, NoAttrs, <<"Size">>)>>) >>)>>),
               Leaf("div", <<W("product-description")>>, NoAttrs,
                    <<"Material", ":", " ", "S", "\n", "Color", " ", "-", " ", "R", "\n",
                      "LONGWORD", ":", "1">>) >>) }

\* script blocks: runParams assigned a JSON object, runParams assigned text
\* that is no JSON, pageData assigned a JSON object
Js_Foo ==
    Leaf("script", <<>>, NoAttrs,
         <<"window.runParams", " ", "=", " ", "{", "\"foo\"", ":", " ", "1", "}", ";">>)

JsFrags ==
    { Js_Foo,
      Leaf("script", <<>>, NoAttrs, <<"window.runParams", "=", "{", "x", ":", "1", "}", ";">>),
      Leaf("script", <<>>, NoAttrs,
           <<"v", "a", "r", " ", "x", ";", "window.pageData", " ", "=", "{", "\"bar\"", ":",
             "[", "]", "}", ";">>) }

\* scripts assigning the globals _extract_javascript_data looks for
JavascriptPages ==
    Family(JsFrags) \cup
    { Frags(<< Leaf("script", <<>>, NoAttrs,
                    <<"window.runParams", " ", "=", " ", "{", "\"foo\"", ":", " ", "1", ".",
                      "5", "0", "}", ";">>),
               Leaf("script", <<>>, NoAttrs,
                    <<"window.pageData", "=", "{", "x", "}", ";", "\n",
                      "window.runParams", "=", "{", "\"bar\"", ":", "[", "true", ",", "null",
                      "]", "}", ";">>) >>) }

\* og:, al: and named meta tags
MetaPages ==
    { Frags(<< Leaf("meta", <<>>, Attr2("property", <<"og:", "title">>, "content", <<"T">>),
                    <<>>),
               Leaf("meta", <<>>, Attr1("property", <<"og:", "image">>), <<>>),
               Leaf("meta", <<>>, Attr2("property", <<"al:", "ios">>, "content", <<"u">>),
                    <<>>),
               Leaf("meta", <<>>, Attr2("name", W("description"), "content", <<"d">>), <<>>),
               Leaf("meta", <<>>, Attr1("name", W("keywords")), <<>>) >>) }

\* the language sources: html lang, meta language, characters of the text
LanguagePages ==
    { Under(Node("html", <<>>, Attr1("lang", W("pl")), <<>>, 0),
            <<Leaf("meta", <<>>, Attr2("name", W("language"), "content", W("de")), <<>>)>>),
      Under(Node("html", <<>>, NoAttrs, <<>>, 0),
            <<Leaf("meta", <<>>, Attr2("name", W("language"), "content", W("de")), <<>>)>>),
      Leaf("p", <<>>, NoAttrs, <<"z", "a-uml", "a-ogonek">>),
      Leaf("p", <<>>, NoAttrs, <<"a-uml">>),
      Leaf("p", <<>>, NoAttrs, <<"eszett">>),
      Leaf("p", <<>>, NoAttrs, <<"G", "r", "u-uml", "eszett", "e">>),
      Leaf("p", <<>>, NoAttrs, <<"FILLER", "a-ogonek">>),
      Frags(<< Leaf("meta", <<>>, Attr1("name", W("language")), <<>>),
               Leaf("p", <<>>, NoAttrs, <<"z", "a-ogonek">>) >>),
      Leaf("meta", <<>>, Attr2("name", W("language"), "content", <<>>), <<>>) }

\* image lists in scripts, gallery img tags, a video
ImagePages ==
    { Frags(<< Leaf("script", <<>>, NoAttrs,
                    <<"\"imagePathList\"", ":", " ", "[", "\"a.jpg\"", ",", "\"b.jpg\"", "]",
                      ",", "\"summImagePathList\"", ":", "[", "\"c.jpg\"", "]">>),
               Under(Node("div", <<W("image-gallery")>>, NoAttrs, <<>>, 0),
                     <<Leaf("img", <<>>, Attr1("src", W("d.jpg")), <<>>)>>) >>),
      Frags(<< Leaf("script", <<>>, NoAttrs,
                    <<"\"imagePathList\"", ":", "[", "x", "]", ";", "gallery">>),
               Under(Node("div", <<W("product-images")>>, NoAttrs, <<>>, 0),
                     << Leaf("img", <<>>, Attr1("src", W("d.jpg")), <<>>),
                        Leaf("img", <<>>, Attr1("data-src", W("d.jpg")), <<>>),
                        Leaf("img", <<>>, Attr1("data-src", W("c.jpg")), <<>>) >>),
               Under(Node("video", <<>>, NoAttrs, <<>>, 0),
                     <<Leaf("source", <<>>, Attr1("data-src", W("v.mp4")), <<>>)>>) >>) }

\* a gallery of n img tags with n different srcs
GalleryRow(n) ==
    Under(Node("div", <<W("image-gallery")>>, NoAttrs, <<>>, 0),
          [i \in 1..n |-> Leaf("img", <<>>, Attr1("src", <<"g">> \o DigitStr(i)), <<>>)])

\* a script whose imagePathList has n entries
GalleryScript(n) ==
    Leaf("script", <<>>, NoAttrs,
         <<"\"imagePathList\"", ":", "[", "\"a.jpg\"">>
         \o [i \in 1..(2 * (n - 1)) |-> IF i % 2 = 1 THEN "," ELSE "\"b.jpg\""]
         \o <<"]">>)

\* galleries longer than the review limit
LongGalleryPages == {GalleryRow(MaxBlocks), GalleryScript(MaxBlocks)}

\* the page of the end-to-end scenario: title, price and og:url
ScenarioPage ==
    Frags(<< Leaf("meta", <<>>, Attr2("property", <<"og:", "url">>,
                                      "content", ItemUrl(<<"1", "0", "0", "5">>)), <<>>),
             Leaf("h1", <<>>, Attr1("data-pl", W("product-title")), <<"W", "i", "r", "e">>),
             Leaf("span", <<W("product-price-value")>>, NoAttrs, Txt_Price) >>)

EmptyPage == <<>>

\* pages in which no extractor has anything to find: no element at all, and
\* elements without class, attribute or text
BarrenPages ==
    {EmptyPage,
     Frags(<< Leaf("div", <<>>, NoAttrs, <<>>) >>),
     Frags(<< Under(Node("div", <<>>, NoAttrs, <<>>, 0), << Leaf("p", <<>>, NoAttrs, <<>>) >>) >>)}

Pages ==
    BarrenPages \cup {ScenarioPage}
    \cup TitlePages \cup PricePages \cup NoPricePages \cup CurrencyPages
    \cup Family(OriginalPriceFrags)
    \cup ReviewCountPages \cup SoldCountPages \cup MainImagePages
    \cup BrandPages \cup ProductIdPages
    \cup VariationPages \cup QuantityPages \cup ReservedTitlePages \cup CategoryPages \cup SellerPages
    \cup ReviewPages \cup ManyReviewPages \cup ShippingPages \cup SpecificationPages \cup JavascriptPages
    \cup MetaPages \cup LanguagePages \cup ImagePages \cup LongGalleryPages

\* every page without a redirect, and the scenario page behind redirects to an
\* item URL and to the home page
Sites ==
    {Site(doc, <<>>) : doc \in Pages}
    \cup {Site(EmptyPage, ItemUrl(<<"4", "2">>)), Site(ScenarioPage, HomeUrl)}

---------------------------------------------------------------------------
(* AliExpressLiveScraper: __init__, scrape_product, close                  *)

\* the number of scrape_product calls followed
MaxCalls == 2

NotCalled == [kind |-> "not called", val |-> <<>>]

\* the lines scrape_product ends on: print("Scraping completed successfully!")
\* and print(f"Error during scraping: {e}") for the exception e it caught
NothingPrinted == <<>>

Completed == <<"Scraping completed successfully!">>

ErrorDuringScraping(e) == <<"Error during scraping", e>>

\* the exceptions scrape_product catches: driver.get failing, the wait timing
\* out, a scroll or page_source failing because the window is gone, and
\* whatever _extract_all_data lets out
WebDriverException == "WebDriverException"

TimeoutException == "TimeoutException"

NoSuchWindowException == "NoSuchWindowException"

ExtractionException == "exception in _extract_all_data"

\* BatchScraper.__init__: no scraper, nothing recorded; no scrape_batch call
\* is running (pc), so its locals (urls, i, successful, failed, start_time)
\* and its return value (summary) are not there yet.  log lists the sleeps
\* and fetches of the last call, finished the counts that every call that
\* has ended left in successful and failed.
BatchScraper(rate_limit) ==
    [rate_limit |-> rate_limit, results |-> <<>>, failed_urls |-> <<>>,
     pc |-> "idle", urls |-> <<>>, i |-> 0, successful |-> 0, failed |-> 0,
     start_time |-> 0, summary |-> NotCalled, log |-> <<>>, finished |-> <<>>]

\* rate_limit: float = 5.0
DefaultRateLimit == 5

\* after __init__ (setup_driver succeeded): a browser, no product data
Init ==
    /\ driver = [open |-> TRUE, current_url |-> BlankUrl]
    /\ product_data = PyDict(EmptyMap)
    /\ earlier_data = PyDict(EmptyMap)
    /\ returned = NotCalled
    /\ printed = NothingPrinted
    /\ site \in Sites
    /\ clock = 0
    /\ number_text = <<>>
    /\ number = NotCalled
    /\ files = EmptyMap
    /\ batch = BatchScraper(DefaultRateLimit)
    /\ products = <<>>
    /\ analysis = NotCalled

\* scrape_product(url) that gives up on a page without a title and returns {}
\* for it
ScrapeProductOrNothing(url) ==
    /\ driver.open
    /\ clock < MaxCalls
    /\ driver' = [driver EXCEPT !.current_url = Landing(url)]
    /\ \E rec \in {ExtractAllData(site.doc, url, [driver EXCEPT !.current_url = Landing(url)], clock)} :
           IF rec.kind = "exception" \/ "title" \notin DOMAIN rec.val["basic_info"].val
           THEN /\ returned' = PyDict(EmptyMap)
                /\ printed' = Completed
                /\ UNCHANGED <<product_data, earlier_data>>
           ELSE /\ product_data' = rec
                /\ earlier_data' = product_data
                /\ returned' = rec
                /\ printed' = Completed
    /\ clock' = clock + 1
    /\ UNCHANGED <<site, number_text, number, files, batch, products, analysis>>

\* scrape_product(url), the page loading: the record is stored and returned; an
\* exception out of _extract_all_data is caught like any other.  The wait
\* looks at the live page and the record is read from page_source several
\* seconds and two scrolls later, so the document parsed need not hold the
\* elements the wait saw: any document of the site can reach the assembler.
ScrapeProduct(url) ==
    /\ driver.open
    /\ clock < MaxCalls
    /\ driver' = [driver EXCEPT !.current_url = Landing(url)]
    /\ \E rec \in {ExtractAllData(site.doc, url, [driver EXCEPT !.current_url = Landing(url)], clock)} :
           IF rec.kind = "exception"
           THEN /\ returned' = PyDict(EmptyMap)
                /\ printed' = ErrorDuringScraping(ExtractionException)
                /\ UNCHANGED <<product_data, earlier_data>>
           ELSE /\ product_data' = rec
                /\ earlier_data' = product_data
                /\ returned' = rec
                /\ printed' = Completed
    /\ clock' = clock + 1
    /\ UNCHANGED <<site, number_text, number, files, batch, products, analysis>>

\* scrape_product(url), driver.get(url) raising: caught, {} is returned
ScrapeNavigationError(url) ==
    /\ driver.open
    /\ clock < MaxCalls
    /\ returned' = PyDict(EmptyMap)
    /\ printed' = ErrorDuringScraping(WebDriverException)
    /\ clock' = clock + 1
    /\ UNCHANGED <<driver, product_data, earlier_data, site, number_text, number, files, batch, products, analysis>>

\* scrape_product(url) that forgets the stored record when the wait times out
ScrapeTimeoutClears(url) ==
    /\ driver.open
    /\ clock < MaxCalls
    /\ driver' = [driver EXCEPT !.current_url = Landing(url)]
    /\ product_data' = PyDict(EmptyMap)
    /\ returned' = PyDict(EmptyMap)
    /\ printed' = ErrorDuringScraping(TimeoutException)
    /\ clock' = clock + 1
    /\ UNCHANGED <<earlier_data, site, number_text, number, files, batch, products, analysis>>

\* scrape_product(url), the wait for the page elements timing out: caught, {}
\* is returned; the browser stays on the page it went to
ScrapeTimeout(url) ==
    /\ driver.open
    /\ clock < MaxCalls
    /\ driver' = [driver EXCEPT !.current_url = Landing(url)]
    /\ returned' = PyDict(EmptyMap)
    /\ printed' = ErrorDuringScraping(TimeoutException)
    /\ clock' = clock + 1
    /\ UNCHANGED <<product_data, earlier_data, site, number_text, number, files, batch, products, analysis>>

\* scrape_product(url), the wait over and execute_script (a scroll) or
\* page_source raising: caught, {} is returned
ScrapeLostWindow(url) ==
    /\ driver.open
    /\ clock < MaxCalls
    /\ driver' = [driver EXCEPT !.current_url = Landing(url)]
    /\ returned' = PyDict(EmptyMap)
    /\ printed' = ErrorDuringScraping(NoSuchWindowException)
    /\ clock' = clock + 1
    /\ UNCHANGED <<product_data, earlier_data, site, number_text, number, files, batch, products, analysis>>

\* scrape_product(url) that treats a missing driver as one more failure and
\* returns {}
ScrapeWithoutDriverEmpty(url) ==
    /\ ~driver.open
    /\ clock < MaxCalls
    /\ returned' = PyDict(EmptyMap)
    /\ clock' = clock + 1
    /\ UNCHANGED <<driver, product_data, earlier_data, printed, site, number_text, number, files, batch, products, analysis>>

\* scrape_product(url) without a driver: 'Driver not initialized' is raised
ScrapeWithoutDriver(url) ==
    /\ ~driver.open
    /\ clock < MaxCalls
    /\ returned' = PyException
    /\ clock' = clock + 1
    /\ UNCHANGED <<driver, product_data, earlier_data, printed, site, number_text, number, files, batch, products, analysis>>

\* close(): quits the browser if there is one
Close ==
    /\ driver.open
    /\ driver' = [driver EXCEPT !.open = FALSE]
    /\ UNCHANGED <<product_data, earlier_data, returned, printed, site, clock, number_text, number, files, batch, products, analysis>>

\* close() again: nothing to do
CloseAgain ==
    /\ ~driver.open
    /\ UNCHANGED vars

Next ==
    \/ \E url \in Urls : ScrapeProduct(url)
    \/ \E url \in Urls : ScrapeNavigationError(url)
    \/ \E url \in Urls : ScrapeTimeout(url)
    \/ \E url \in Urls : ScrapeLostWindow(url)
    \/ \E url \in Urls : ScrapeWithoutDriver(url)
    \/ Close
    \/ CloseAgain

Spec == Init /\ [][Next]_vars

---------------------------------------------------------------------------
(* AliExpressLiveScraper: save_to_json and print_summary, after scrapes     *)

\* what json.dump writes for a value: its JSON text
JsonText(v) == [kind |-> "json text", val |-> v]

\* basic_info.get('product_id', 'unknown') of a record
ProductIdOrUnknown(rec) ==
    IF "product_id" \in DOMAIN rec.val["basic_info"].val
    THEN rec.val["basic_info"].val["product_id"].val
    ELSE W("unknown")

\* f"aliexpress_product_{product_id}_{timestamp}.json"
SaveFilename(rec, now) ==
    W("aliexpress_product_") \o ProductIdOrUnknown(rec) \o W("_") \o DigitStr(now) \o W(".json")

\* the sites the saving scraper is followed on
SaveSites == {Site(ScenarioPage, <<>>), Site(EmptyPage, <<>>), Site(ScenarioPage, HomeUrl)}

InitSave ==
    /\ Init
    /\ site \in SaveSites

\* save_to_json(): False without a record, else the record is written to the
\* file named after its product id and the time
SaveToJson ==
    /\ IF product_data.val = EmptyMap
       THEN /\ printed' = W("No data to save")
            /\ returned' = PyBool(FALSE)
            /\ UNCHANGED files
       ELSE /\ files' = Put(files, SaveFilename(product_data, clock), JsonText(product_data))
            /\ printed' = W("Data saved to") \o SaveFilename(product_data, clock)
            /\ returned' = PyBool(TRUE)
    /\ UNCHANGED <<driver, product_data, earlier_data, site, clock, number_text, number>>
    /\ UNCHANGED <<batch, products, analysis>>

\* save_to_json(), open or json.dump raising: caught, False is returned
SaveToJsonFails ==
    /\ product_data.val # EmptyMap
    /\ printed' = W("Error saving data")
    /\ returned' = PyBool(FALSE)
    /\ UNCHANGED <<driver, product_data, earlier_data, site, clock, number_text, number>>
    /\ UNCHANGED <<files, batch, products, analysis>>

\* print_summary(): the URL and the product id of the stored record, among
\* the lines it prints
PrintSummary ==
    /\ printed' = IF product_data.val = EmptyMap THEN W("No data available")
                  ELSE W("ALIEXPRESS LIVE SCRAPING SUMMARY") \o W("URL") \o product_data.val["url"].val
                       \o W("Product ID") \o ProductIdOrUnknown(product_data)
    /\ UNCHANGED <<driver, product_data, earlier_data, returned, site, clock, number_text, number>>
    /\ UNCHANGED <<files, batch, products, analysis>>

NextSave ==
    \/ Next
    \/ SaveToJson
    \/ SaveToJsonFails
    \/ PrintSummary

SpecSave == InitSave /\ [][NextSave]_vars

---------------------------------------------------------------------------
(* BatchScraper: scrape_batch, one iteration of its URL loop at a step     *)

\* the longest URL list given to scrape_batch
MaxUrls == 2

\* the time (one unit for a browser start, one for a fetch) up to which a
\* BatchScraper is followed
MaxTime == 4

\* random.uniform(0, 2): at most this much is added to rate_limit
MaxJitter == 2

\* the ends of the range random.uniform draws from
Jitters == {0, MaxJitter}

\* --rate-limit as given on the command line: the default and a negative one
RateLimits == {DefaultRateLimit, -1}

\* the URL lists: the first URLs of a file that names the same product twice
UrlFile == [n \in 1..(MaxUrls + 1) |-> IF n = 2 THEN HomeUrl ELSE ItemUrl(<<"1", "2">>)]

UrlLists == {SubSeq(UrlFile, 1, n) : n \in 0..MaxUrls} \cup {SubSeq(UrlFile, 2, n) : n \in 2..(MaxUrls + 1)}

\* BatchScraper(rate_limit=...) just constructed: no scraper, no browser yet
InitBatch ==
    /\ driver = [open |-> FALSE, current_url |-> BlankUrl]
    /\ product_data = PyDict(EmptyMap)
    /\ earlier_data = PyDict(EmptyMap)
    /\ returned = NotCalled
    /\ printed = NothingPrinted
    /\ site = Site(ScenarioPage, <<>>)
    /\ clock = 0
    /\ number_text = <<>>
    /\ number = NotCalled
    /\ files = EmptyMap
    /\ \E rate_limit \in RateLimits : batch = BatchScraper(rate_limit)
    /\ products = <<>>
    /\ analysis = NotCalled

\* a float held as the bits of its double
PyDouble(x) == [kind |-> "double", val |-> x]

\* an exception that left the call, by the name of its class
Raised(e) == [kind |-> "exception", val |-> <<e>>]

KeyboardInterrupt == "KeyboardInterrupt"

OSError == "OSError"

\* f"{i:04d}"
Pad4(i) ==
    LET ds == DigitStr(i)
    IN  [k \in 1..(IF Len(ds) < 4 THEN 4 - Len(ds) ELSE 0) |-> "0"] \o ds

\* f"product_{i:04d}_{int(time.time())}.json"
ProductFilename(i, now) == W("product_") \o Pad4(i) \o W("_") \o DigitStr(now) \o W(".json")

\* f"batch_summary_{int(time.time())}.json"
SummaryFilename(now) == W("batch_summary_") \o DigitStr(now) \o W(".json")

\* what the loop does, in order: the URL an iteration is for, the delay
\* slept, the URL fetched
Event(ev, url, d) == [ev |-> ev, url |-> url, d |-> d]

\* the entry of self.results for a saved product
ResultEntry(url, filename, now) ==
    PyDict([k \in {"url", "status", "filename", "scraped_at"} |->
               CASE k = "url" -> PyStr(url)
                 [] k = "status" -> PyStr(W("success"))
                 [] k = "filename" -> PyStr(filename)
                 [] OTHER -> IsoFormat(now)])

\* the entry of self.failed_urls: {'url': url, 'error': str(e)}
FailedEntry(url, error) ==
    PyDict([k \in {"url", "error"} |-> IF k = "url" THEN PyStr(url) ELSE PyStr(error)])

\* str(e) of the exceptions the per-URL handler catches
NoProductData == W("No product data extracted")

SleepLengthNegative == W("sleep length must be non-negative")

CannotWrite == W("[Errno 28] No space left on device")

\* (successful / total_urls * 100) if total_urls > 0 else 0
SuccessRate(successful, total_urls) ==
    IF total_urls > 0 THEN PyDouble(DoubleTimes(DoubleOfQuotient(successful, total_urls), 100))
    ELSE PyInt(0)

\* the summary dictionary of a call that ends at the time now
Summary(b, now) ==
    PyDict([k \in {"start_time", "end_time", "duration_seconds", "total_urls", "successful",
                   "failed", "success_rate", "results", "failed_urls"} |->
               CASE k = "start_time" -> IsoFormat(b.start_time)
                 [] k = "end_time" -> IsoFormat(now)
                 [] k = "duration_seconds" -> PyFloat(FALSE, now - b.start_time, <<>>)
                 [] k = "total_urls" -> PyInt(Len(b.urls))
                 [] k = "successful" -> PyInt(b.successful)
                 [] k = "failed" -> PyInt(b.failed)
                 [] k = "success_rate" -> SuccessRate(b.successful, Len(b.urls))
                 [] k = "results" -> PyList(b.results)
                 [] OTHER -> PyList(b.failed_urls)])

\* the loop has a URL left
Pending == batch.pc = "loop" /\ batch.i < Len(batch.urls)

\* the URL and the number of the iteration about to run
ThisUrl == batch.urls[batch.i + 1]

ThisI == batch.i + 1

\* delay = self.rate_limit + random.uniform(0, 2)
Delay(jitter) == batch.rate_limit + jitter

\* if i > 1: time.sleep(delay), which returns for a delay that is not negative
SleepReturns(jitter) == ThisI > 1 => Delay(jitter) >= 0

\* an iteration that goes straight to the fetch once a URL of the call has
\* failed
UpToFetchUnpaced(jitter) ==
    <<Event("url", ThisUrl, 0)>>
    \o (IF ThisI > 1 /\ batch.failed = 0 THEN <<Event("sleep", <<>>, Delay(jitter))>> ELSE <<>>)
    \o <<Event("fetch", ThisUrl, 0)>>

\* the events up to the fetch of an iteration
UpToFetch(jitter) ==
    <<Event("url", ThisUrl, 0)>>
    \o (IF ThisI > 1 THEN <<Event("sleep", <<>>, Delay(jitter))>> ELSE <<>>)
    \o <<Event("fetch", ThisUrl, 0)>>

\* the counts a call leaves behind when it ends
Ended(b, how) == [successful |-> b.successful, failed |-> b.failed, how |-> how]

\* scrape_batch(urls) that begins with empty results and failed_urls
ScrapeBatchResets(urls) ==
    /\ batch.pc = "idle"
    /\ clock + 1 + Len(urls) <= MaxTime
    /\ driver' = [open |-> TRUE, current_url |-> BlankUrl]
    /\ product_data' = PyDict(EmptyMap)
    /\ earlier_data' = PyDict(EmptyMap)
    /\ returned' = NotCalled
    /\ printed' = NothingPrinted
    /\ clock' = clock + 1
    /\ batch' = [batch EXCEPT !.pc = "loop", !.urls = urls, !.i = 0, !.successful = 0,
                              !.failed = 0, !.start_time = clock + 1, !.summary = NotCalled,
                              !.log = <<>>, !.results = <<>>, !.failed_urls = <<>>]
    /\ UNCHANGED <<site, number_text, number, files, products, analysis>>

\* scrape_batch(urls) up to its loop: a new scraper with its own browser, the
\* counters at zero; results and failed_urls are left as they are
ScrapeBatch(urls) ==
    /\ batch.pc = "idle"
    /\ clock + 1 + Len(urls) <= MaxTime
    /\ driver' = [open |-> TRUE, current_url |-> BlankUrl]
    /\ product_data' = PyDict(EmptyMap)
    /\ earlier_data' = PyDict(EmptyMap)
    /\ returned' = NotCalled
    /\ printed' = NothingPrinted
    /\ clock' = clock + 1
    /\ batch' = [batch EXCEPT !.pc = "loop", !.urls = urls, !.i = 0, !.successful = 0,
                              !.failed = 0, !.start_time = clock + 1, !.summary = NotCalled,
                              !.log = <<>>]
    /\ UNCHANGED <<site, number_text, number, files, products, analysis>>

\* a per-URL handler that records the failure and tries the same URL again
FailureRetries(b, url, error, events) ==
    [b EXCEPT !.failed_urls = Append(@, FailedEntry(url, error)), !.failed = @ + 1,
              !.log = @ \o events]

\* the failure branch of the per-URL handler
Failure(b, url, error, events) ==
    [b EXCEPT !.failed_urls = Append(@, FailedEntry(url, error)), !.failed = @ + 1,
              !.i = @ + 1, !.log = @ \o events]

\* an iteration whose scrape_product call returns: a record with basic_info
\* is written to its own file and entered in results, anything else raises
\* 'No product data extracted' into the handler
BatchFetch(jitter) ==
    /\ Pending
    /\ SleepReturns(jitter)
    /\ driver' = [driver EXCEPT !.current_url = Landing(ThisUrl)]
    /\ clock' = clock + 1
    /\ \E rec \in {ExtractAllData(site.doc, ThisUrl, [driver EXCEPT !.current_url = Landing(ThisUrl)], clock)} :
           IF rec.kind = "exception"
           THEN /\ returned' = PyDict(EmptyMap)
                /\ printed' = ErrorDuringScraping(ExtractionException)
                /\ batch' = Failure(batch, ThisUrl, NoProductData, UpToFetch(jitter))
                /\ UNCHANGED <<product_data, earlier_data, files>>
           ELSE /\ product_data' = rec
                /\ earlier_data' = product_data
                /\ returned' = rec
                /\ printed' = Completed
                /\ IF "basic_info" \in DOMAIN rec.val
                   THEN /\ files' = Put(files, ProductFilename(ThisI, clock + 1), JsonText(rec))
                        /\ batch' = [batch EXCEPT
                               !.results = Append(@, ResultEntry(ThisUrl, ProductFilename(ThisI, clock + 1), clock + 1)),
                               !.successful = @ + 1, !.i = @ + 1, !.log = @ \o UpToFetch(jitter)]
                   ELSE /\ batch' = Failure(batch, ThisUrl, NoProductData, UpToFetch(jitter))
                        /\ UNCHANGED files
    /\ UNCHANGED <<site, number_text, number, products, analysis>>

\* an iteration whose record cannot be written: open or json.dump raises into
\* the handler, after the scraper stored the record
BatchSaveFails(jitter) ==
    /\ Pending
    /\ SleepReturns(jitter)
    /\ driver' = [driver EXCEPT !.current_url = Landing(ThisUrl)]
    /\ clock' = clock + 1
    /\ \E rec \in {ExtractAllData(site.doc, ThisUrl, [driver EXCEPT !.current_url = Landing(ThisUrl)], clock)} :
           /\ rec.kind # "exception"
           /\ "basic_info" \in DOMAIN rec.val
           /\ product_data' = rec
           /\ earlier_data' = product_data
           /\ returned' = rec
           /\ printed' = Completed
    /\ batch' = Failure(batch, ThisUrl, CannotWrite, UpToFetch(jitter))
    /\ UNCHANGED <<site, number_text, number, files, products, analysis>>

\* an iteration whose scrape_product call catches e and returns {}: the
\* empty record raises 'No product data extracted' into the handler
BatchFetchFails(jitter, e) ==
    /\ Pending
    /\ SleepReturns(jitter)
    /\ driver' = IF e = WebDriverException THEN driver
                 ELSE [driver EXCEPT !.current_url = Landing(ThisUrl)]
    /\ clock' = clock + 1
    /\ returned' = PyDict(EmptyMap)
    /\ printed' = ErrorDuringScraping(e)
    /\ batch' = Failure(batch, ThisUrl, NoProductData, UpToFetch(jitter))
    /\ UNCHANGED <<product_data, earlier_data, site, number_text, number, files, products, analysis>>

\* an iteration after the first with a negative delay: time.sleep raises
\* ValueError into the handler and the URL is not fetched
BatchSleepFails(jitter) ==
    /\ Pending
    /\ ~SleepReturns(jitter)
    /\ batch' = Failure(batch, ThisUrl, SleepLengthNegative, <<Event("url", ThisUrl, 0)>>)
    /\ UNCHANGED <<driver, product_data, earlier_data, returned, printed, site, clock>>
    /\ UNCHANGED <<number_text, number, files, products, analysis>>

\* what `finally` and the propagating exception e leave of the call
Left(b, e, events) ==
    [b EXCEPT !.pc = "idle", !.summary = Raised(e), !.log = @ \o events,
              !.finished = Append(@, Ended(b, e))]

\* Ctrl-C during the pacing sleep: KeyboardInterrupt passes the per-URL
\* handler, `finally` closes the scraper and the call ends without a summary
BatchInterruptSleep(jitter) ==
    /\ Pending
    /\ ThisI > 1
    /\ SleepReturns(jitter)
    /\ driver' = [driver EXCEPT !.open = FALSE]
    /\ batch' = Left(batch, KeyboardInterrupt,
                     <<Event("url", ThisUrl, 0), Event("interrupt", <<>>, Delay(jitter))>>)
    /\ UNCHANGED <<product_data, earlier_data, returned, printed, site, clock>>
    /\ UNCHANGED <<number_text, number, files, products, analysis>>

\* Ctrl-C during scrape_product in a loop without `finally`: the browser is
\* left running
BatchInterruptFetchLeavesOpen(jitter) ==
    /\ Pending
    /\ SleepReturns(jitter)
    /\ driver' = [open |-> TRUE, current_url |-> Landing(ThisUrl)]
    /\ clock' = clock + 1
    /\ batch' = Left(batch, KeyboardInterrupt,
                     UpToFetch(jitter) \o <<Event("interrupt", <<>>, 0)>>)
    /\ UNCHANGED <<product_data, earlier_data, returned, printed, site>>
    /\ UNCHANGED <<number_text, number, files, products, analysis>>

\* Ctrl-C during scrape_product, the page requested: KeyboardInterrupt is no
\* Exception, so it passes scrape_product's handler and the per-URL one
BatchInterruptFetch(jitter) ==
    /\ Pending
    /\ SleepReturns(jitter)
    /\ driver' = [open |-> FALSE, current_url |-> Landing(ThisUrl)]
    /\ clock' = clock + 1
    /\ batch' = Left(batch, KeyboardInterrupt,
                     UpToFetch(jitter) \o <<Event("interrupt", <<>>, 0)>>)
    /\ UNCHANGED <<product_data, earlier_data, returned, printed, site>>
    /\ UNCHANGED <<number_text, number, files, products, analysis>>

\* the loop over: `finally` closes the scraper, the summary is built, written
\* to its file and returned
BatchFinish ==
    /\ batch.pc = "loop"
    /\ batch.i = Len(batch.urls)
    /\ driver' = [driver EXCEPT !.open = FALSE]
    /\ \E summary \in {Summary(batch, clock)} :
           /\ files' = Put(files, SummaryFilename(clock), JsonText(summary))
           /\ batch' = [batch EXCEPT !.pc = "idle", !.summary = summary,
                                     !.finished = Append(@, Ended(batch, "returned"))]
    /\ UNCHANGED <<product_data, earlier_data, returned, printed, site, clock>>
    /\ UNCHANGED <<number_text, number, products, analysis>>

\* the loop over but the summary file cannot be written: the scraper is
\* closed and OSError leaves the call
BatchSummaryFails ==
    /\ batch.pc = "loop"
    /\ batch.i = Len(batch.urls)
    /\ driver' = [driver EXCEPT !.open = FALSE]
    /\ batch' = Left(batch, OSError, <<>>)
    /\ UNCHANGED <<product_data, earlier_data, returned, printed, site, clock>>
    /\ UNCHANGED <<number_text, number, files, products, analysis>>

NextBatch ==
    \/ \E urls \in UrlLists : ScrapeBatch(urls)
    \/ \E jitter \in Jitters : BatchFetch(jitter)
    \/ \E jitter \in Jitters : BatchSaveFails(jitter)
    \/ \E jitter \in Jitters : \E e \in {WebDriverException, TimeoutException} : BatchFetchFails(jitter, e)
    \/ \E jitter \in Jitters : BatchSleepFails(jitter)
    \/ \E jitter \in Jitters : BatchInterruptSleep(jitter)
    \/ \E jitter \in Jitters : BatchInterruptFetch(jitter)
    \/ BatchFinish
    \/ BatchSummaryFails

SpecBatch == InitBatch /\ [][NextBatch]_vars

---------------------------------------------------------------------------
(* AliExpressDataAnalyzer: the four analyze methods on loaded records      *)

\* the longest list of records analysed
MaxProducts == 2

\* the pages whose records are analysed
AnalyzerPages ==
    {EmptyPage, ScenarioPage} \cup SellerPages \cup CategoryPages \cup SpecificationPages

\* what the assembler emits for these pages: the records scrape_product
\* returned, written to product_*.json and read back by load_scraped_data
AssemblerRecords ==
    {rec \in {ExtractAllData(doc, ItemUrl(<<"1", "2">>),
                             [open |-> TRUE, current_url |-> ItemUrl(<<"1", "2">>)], 0) :
                  doc \in AnalyzerPages} : rec.kind = "dict"}

RECURSIVE ListsUpTo(_, _)
\* the lists of at most n elements of S
ListsUpTo(S, n) ==
    IF n = 0 THEN {<<>>}
    ELSE ListsUpTo(S, n - 1) \cup {Append(l, x) : l \in {q \in ListsUpTo(S, n - 1) : Len(q) = n - 1}, x \in S}

\* after load_scraped_data
InitAnalyzer ==
    /\ driver = [open |-> FALSE, current_url |-> BlankUrl]
    /\ product_data = PyDict(EmptyMap)
    /\ earlier_data = PyDict(EmptyMap)
    /\ returned = NotCalled
    /\ printed = NothingPrinted
    /\ site = Site(EmptyPage, <<>>)
    /\ clock = 0
    /\ number_text = <<>>
    /\ number = NotCalled
    /\ files = EmptyMap
    /\ batch = BatchScraper(DefaultRateLimit)
    /\ products \in ListsUpTo(AssemblerRecords, MaxProducts)
    /\ analysis = NotCalled

AttributeError == "AttributeError"

TypeError == "TypeError"

\* the exception e leaving the method
RaisedIn(method, e) == [kind |-> "exception", val |-> <<method, e>>]

\* d.get(key, default)
Get(d, key, default) == IF key \in DOMAIN d.val THEN d.val[key] ELSE default

\* bool(v)
Truthy(v) ==
    CASE v.kind = "none" -> FALSE
      [] v.kind = "bool" -> v.val
      [] v.kind = "int" -> v.val # 0
      [] v.kind = "float" -> v.val[2] # 0 \/ v.val[3] # <<>>
      [] v.kind = "str" -> v.val # <<>>
      [] v.kind = "list" -> v.val # <<>>
      [] v.kind = "dict" -> DOMAIN v.val # {}
      [] OTHER -> TRUE

\* float(v) inside try/except (ValueError, TypeError): a number as it is, a
\* text of digits and a point parsed, nothing for anything else
ToFloat(v) ==
    CASE v.kind = "str" -> IF FloatOfText(v.val).ok THEN Some(PyDouble(FloatOfText(v.val).val)) ELSE None
      [] v.kind \in {"int", "float"} -> Some(v)
      [] OTHER -> None

\* int(v) inside try/except (ValueError, TypeError)
ToInt(v) ==
    CASE v.kind = "str" -> IF v.val # <<>> /\ \A k \in DOMAIN v.val : v.val[k] \in Digits
                           THEN Some(PyInt(DigitsVal(v.val))) ELSE None
      [] v.kind = "int" -> Some(v)
      [] v.kind = "float" -> Some(PyInt(IF v.val[1] THEN 0 - v.val[2] ELSE v.val[2]))
      [] OTHER -> None

\* str(v) of a text or a whole number
StrOf(v) == IF v.kind = "int" THEN DigitStr(v.val) ELSE v.val

\* self._extract_number_from_text(v), kept if it is not None or zero (the
\* number comes as its decimal digits)
ToNumber(v) ==
    LET Kept(n) == IF n.kind = "int" /\ n.val # <<"0">> THEN Some(n) ELSE None
    IN  IF v.kind \in {"str", "int"} THEN Kept(ExtractNumberFromText(StrOf(v))) ELSE None

\* the values a loop appends to a list: for every product whose group has
\* something true under key, what Convert makes of it
Collected(ps, group, key, Convert(_)) ==
    LET values == [k \in DOMAIN ps |-> Get(Get(ps[k], group, PyDict(EmptyMap)), key, PyNone)]
        kept == SelectSeq(values, LAMBDA v : Truthy(v) /\ Convert(v).some)
    IN  [k \in DOMAIN kept |-> Convert(kept[k]).val]

\* Counter of the values of a list
CounterOf(values) ==
    [v \in {values[k] : k \in DOMAIN values} |->
        PyInt(Cardinality({k \in DOMAIN values : values[k] = v}))]

\* the statistics dictionary of a list (min, max, mean, median, counts),
\* kept as the list it is computed from; {} for an empty list
StatisticsOf(values) ==
    IF values = <<>> THEN PyDict(EmptyMap) ELSE [kind |-> "statistics", val |-> values]

\* the methods a.get(...) and s.replace(...) exist: a is a dict, s a str
HasGet(v) == v.kind = "dict"

HasReplace(v) == v.kind = "str"

\* hash(v) is defined
Hashable(v) == v.kind \notin {"list", "dict"}

\* the loop of analyze_pricing raises AttributeError on this product
PricingRaises(product) ==
    LET pricing == Get(product, "pricing", PyDict(EmptyMap))
        current_price == Get(pricing, "current_price", PyDict(EmptyMap))
        discount == Get(pricing, "discount_percentage", PyNone)
    IN  \/ ~HasGet(current_price)
        \/ Truthy(discount) /\ ~HasReplace(discount)

\* float(discount.replace('%', ''))
DiscountToFloat(v) == ToFloat(PyStr(SelectSeq(v.val, LAMBDA c : c # "%")))

\* pricing.get('current_price', {})
CurrentPriceOf(product) ==
    Get(Get(product, "pricing", PyDict(EmptyMap)), "current_price", PyDict(EmptyMap))

\* the products whose current_price has a value that float() takes
Priced(ps) ==
    SelectSeq(ps, LAMBDA product : /\ Truthy(Get(CurrentPriceOf(product), "value", PyNone))
                                   /\ ToFloat(Get(CurrentPriceOf(product), "value", PyNone)).some)

\* analyze_pricing(): the first product whose current_price has no get()
\* ends it, nothing else having been written
analyze_pricing(ps) ==
    IF \E k \in DOMAIN ps : PricingRaises(ps[k]) THEN RaisedIn("analyze_pricing", AttributeError)
    ELSE LET priced == Priced(ps)
             prices == [k \in DOMAIN priced |-> ToFloat(CurrentPriceOf(priced[k]).val["value"]).val]
             currencies == [k \in DOMAIN priced |->
                               Get(CurrentPriceOf(priced[k]), "currency", PyStr(<<"Unknown">>)).val]
             discount_data == Collected(ps, "pricing", "discount_percentage", DiscountToFloat)
         IN  PyDict([k \in {"total_products_with_pricing", "price_statistics",
                            "currency_distribution", "discount_statistics"} |->
                        CASE k = "total_products_with_pricing" -> PyInt(Len(prices))
                          [] k = "price_statistics" -> StatisticsOf(prices)
                          [] k = "currency_distribution" -> PyDict(CounterOf(currencies))
                          [] OTHER -> StatisticsOf(discount_data)])

\* analyze_ratings_and_reviews(): every conversion is inside a try that
\* catches ValueError and TypeError
analyze_ratings_and_reviews(ps) ==
    IF \E k \in DOMAIN ps : ~HasGet(Get(ps[k], "reviews_and_ratings", PyDict(EmptyMap)))
    THEN RaisedIn("analyze_ratings_and_reviews", AttributeError)
    ELSE PyDict([k \in {"rating_statistics", "review_statistics", "sales_statistics"} |->
                    CASE k = "rating_statistics" ->
                             StatisticsOf(Collected(ps, "reviews_and_ratings", "average_rating", ToFloat))
                      [] k = "review_statistics" ->
                             StatisticsOf(Collected(ps, "reviews_and_ratings", "total_reviews", ToInt))
                      [] OTHER ->
                             StatisticsOf(Collected(ps, "reviews_and_ratings", "sales_count", ToNumber))])

\* basic_info.get('category', 'Unknown')
CategoryOf(product) == Get(Get(product, "basic_info", PyDict(EmptyMap)), "category", PyStr(<<"Unknown">>))

\* specs.get('Brand', specs.get('brand', '')); the keys of specifications are
\* texts of the page
BrandOfSpecs(product) ==
    Get(Get(product, "specifications", PyDict(EmptyMap)), W("Brand"),
        Get(Get(product, "specifications", PyDict(EmptyMap)), W("brand"), PyStr(<<>>)))

\* basic_info.get('title', '')
TitleOfProduct(product) == Get(Get(product, "basic_info", PyDict(EmptyMap)), "title", PyStr(<<>>))

\* the brands counted: if brand and brand != 'Unknown'
RECURSIVE BrandsFrom(_, _)
BrandsFrom(ps, k) ==
    IF k > Len(ps) THEN <<>>
    ELSE IF Truthy(BrandOfSpecs(ps[k])) /\ BrandOfSpecs(ps[k]) # PyStr(<<"Unknown">>)
    THEN <<BrandOfSpecs(ps[k]).val>> \o BrandsFrom(ps, k + 1)
    ELSE BrandsFrom(ps, k + 1)

\* analyze_categories_and_products(): categories and brands are counted in
\* Counters, the titles go to _extract_common_keywords (kept as the titles);
\* most_common(20) keeps the whole of a Counter of at most MaxProducts keys
analyze_categories_and_products(ps) ==
    IF \E k \in DOMAIN ps : ~Hashable(CategoryOf(ps[k])) \/ ~Hashable(BrandOfSpecs(ps[k]))
    THEN RaisedIn("analyze_categories_and_products", TypeError)
    ELSE IF \E k \in DOMAIN ps : Truthy(TitleOfProduct(ps[k])) /\ TitleOfProduct(ps[k]).kind # "str"
    THEN RaisedIn("analyze_categories_and_products", AttributeError)
    ELSE LET categories == CounterOf([k \in DOMAIN ps |-> CategoryOf(ps[k]).val])
             brands == CounterOf(BrandsFrom(ps, 1))
         IN  PyDict([k \in {"category_distribution", "brand_distribution", "common_keywords",
                            "total_categories", "total_brands"} |->
                        CASE k = "category_distribution" -> PyDict(categories)
                          [] k = "brand_distribution" -> PyDict(brands)
                          [] k = "common_keywords" ->
                                 [kind |-> "keywords", val |-> [j \in DOMAIN ps |-> TitleOfProduct(ps[j]).val]]
                          [] k = "total_categories" -> PyInt(Cardinality(DOMAIN categories))
                          [] OTHER -> PyInt(Cardinality(DOMAIN brands))])

\* float(seller_info['rating'].replace('%', ''))
RatingToFloat(v) == ToFloat(PyStr(SelectSeq(v.val, LAMBDA c : c # "%")))

\* the seller names counted: seller_info.get('name', 'Unknown') != 'Unknown'
RECURSIVE SellersFrom(_, _)
SellersFrom(ps, k) ==
    IF k > Len(ps) THEN <<>>
    ELSE LET seller_name == Get(Get(ps[k], "seller_info", PyDict(EmptyMap)), "name", PyStr(<<"Unknown">>))
         IN  IF seller_name # PyStr(<<"Unknown">>) THEN <<seller_name.val>> \o SellersFrom(ps, k + 1)
             ELSE SellersFrom(ps, k + 1)

\* analyze_seller_data(): a rating that is not a text has no replace(); the
\* other conversions are inside a try that catches ValueError and TypeError
analyze_seller_data(ps) ==
    IF \E k \in DOMAIN ps :
           LET rating == Get(Get(ps[k], "seller_info", PyDict(EmptyMap)), "rating", PyNone)
           IN  Truthy(rating) /\ ~HasReplace(rating)
    THEN RaisedIn("analyze_seller_data", AttributeError)
    ELSE PyDict([k \in {"seller_rating_statistics", "seller_experience_statistics",
                        "seller_popularity_statistics", "top_sellers"} |->
                    CASE k = "seller_rating_statistics" ->
                             StatisticsOf(Collected(ps, "seller_info", "rating", RatingToFloat))
                      [] k = "seller_experience_statistics" ->
                             StatisticsOf(Collected(ps, "seller_info", "years_in_business", ToInt))
                      [] k = "seller_popularity_statistics" ->
                             StatisticsOf(Collected(ps, "seller_info", "followers", ToNumber))
                      [] OTHER -> PyDict(CounterOf(SellersFrom(ps, 1)))])

AnalyzePricing ==
    /\ analysis' = analyze_pricing(products)
    /\ UNCHANGED <<driver, product_data, earlier_data, returned, printed, site, clock>>
    /\ UNCHANGED <<number_text, number, files, batch, products>>

AnalyzeRatingsAndReviews ==
    /\ analysis' = analyze_ratings_and_reviews(products)
    /\ UNCHANGED <<driver, product_data, earlier_data, returned, printed, site, clock>>
    /\ UNCHANGED <<number_text, number, files, batch, products>>

AnalyzeCategoriesAndProducts ==
    /\ analysis' = analyze_categories_and_products(products)
    /\ UNCHANGED <<driver, product_data, earlier_data, returned, printed, site, clock>>
    /\ UNCHANGED <<number_text, number, files, batch, products>>

AnalyzeSellerData ==
    /\ analysis' = analyze_seller_data(products)
    /\ UNCHANGED <<driver, product_data, earlier_data, returned, printed, site, clock>>
    /\ UNCHANGED <<number_text, number, files, batch, products>>

NextAnalyzer ==
    \/ AnalyzePricing
    \/ AnalyzeRatingsAndReviews
    \/ AnalyzeCategoriesAndProducts
    \/ AnalyzeSellerData

SpecAnalyzer == InitAnalyzer /\ [][NextAnalyzer]_vars

---------------------------------------------------------------------------
(* AliExpressDataAnalyzer: _extract_number_from_text called on a text      *)

\* the longest text made of the characters below
MaxTextLen == 4

\* digits, both separators, a thousand and a million suffix
TextChars == {"1", "4", ".", ",", "k", "M"}

RECURSIVE Texts(_)
\* the texts of at most n characters
Texts(n) ==
    IF n = 0 THEN {<<>>}
    ELSE Texts(n - 1) \cup {Append(t, c) : t \in {u \in Texts(n - 1) : Len(u) = n - 1}, c \in TextChars}

\* the texts the routine is called on: the short ones, and count texts as the
\* pages show them
NumberTexts ==
    Texts(MaxTextLen)
    \cup {<<"1", "2", ".", "3", "k">>, <<"2", ".", "1", "m">>, <<"1", ",", "2", "3", "4">>,
          <<"N", "/", "A">>, <<"1", ".", "2", ".", "3">>, <<"1", "2", ".", "5", "K">>,
          <<"3", ".", "2", "m">>, <<"8", ".", "2", "m">>, <<"2", ".", "0", "1", "k">>,
          <<"1", "2", "3", "4", " ", "sold">>, <<"5", "0", "0", "+">>}

\* an analyzer about to be given some text; the scraper idle, as after __init__
InitNumber ==
    /\ driver = [open |-> TRUE, current_url |-> BlankUrl]
    /\ product_data = PyDict(EmptyMap)
    /\ earlier_data = PyDict(EmptyMap)
    /\ returned = NotCalled
    /\ printed = NothingPrinted
    /\ site = Site(EmptyPage, <<>>)
    /\ clock = 0
    /\ number_text \in NumberTexts
    /\ number = NotCalled
    /\ files = EmptyMap
    /\ batch = BatchScraper(DefaultRateLimit)
    /\ products = <<>>
    /\ analysis = NotCalled

\* _extract_number_from_text(number_text)
ExtractNumber ==
    /\ number = NotCalled
    /\ number' = ExtractNumberFromText(number_text)
    /\ UNCHANGED <<number_text, driver, product_data, earlier_data, returned, printed, site, clock>>
    /\ UNCHANGED <<files, batch, products, analysis>>

NextNumber == ExtractNumber

SpecNumber == InitNumber /\ [][NextNumber]_vars

---------------------------------------------------------------------------
(* The record of a scrape                                                  *)

\* a scrape_product call has completed: product_data holds its record
Scraped == DOMAIN product_data.val # {}

\* the field-group mapping of that record
Fields(group) == product_data.val[group].val

GroupKeys ==
    {"basic_info", "pricing", "reviews_and_ratings", "product_variations", "images",
     "shipping_info", "specifications", "seller_info", "javascript_data", "meta_tags"}

ContractKeys == GroupKeys \cup {"url", "scraping_timestamp", "page_language"}

\* C1: whatever the document and the URL, a record that scrape_product returns
\* or stores has exactly the thirteen top-level keys of the contract, and a
\* scrape that completes returns and stores such a record.
C1_ExactKeySet ==
    /\ returned.kind = "dict" /\ DOMAIN returned.val # {} => DOMAIN returned.val = ContractKeys
    /\ Scraped => DOMAIN product_data.val = ContractKeys
    /\ printed = Completed => Scraped

\* a scrape of the scenario page has returned a record with the thirteen keys
C1_Witness ==
    /\ site.doc = ScenarioPage
    /\ returned.kind = "dict"
    /\ Cardinality(DOMAIN returned.val) = 13
    /\ "title" \in DOMAIN returned.val["basic_info"].val

\* the quantity element of the page (0: none), as the extractor looks it up
QuantityElem(doc) ==
    SelectOne(doc, 0, << <<ByClass(W("quantity-selector"))>>,
                         <<ByAttr("input", "name", "*=", W("quantity"))>> >>)

\* int(max_qty) raises on this page: the quantity element q is an input whose
\* max attribute is not empty and is no int literal
FaultAt(doc, q) ==
    /\ q # 0
    /\ doc[q].tag = "input"
    /\ GetAttr(doc[q], "max", <<>>) # <<>>
    /\ ~IntParse(GetAttr(doc[q], "max", <<>>)).ok

QuantityFault(doc) == FaultAt(doc, QuantityElem(doc))

\* the page without the max attributes: the statement that faults is not reached
WithoutMax(doc) ==
    [i \in DOMAIN doc |->
        [doc[i] EXCEPT !.attrs = [a \in DOMAIN doc[i].attrs \ {"max"} |-> doc[i].attrs[a]]]]

\* C2: no fault of an extractor ends a scrape: scrape_product never reports an
\* exception out of _extract_all_data, every field group of a record is a
\* mapping, and on a page where int(max) faults product_variations holds what
\* the extractor had stored before the fault, which is what it extracts from
\* the same page without the max attribute.
C2_ExtractorFaultContained ==
    /\ printed # ErrorDuringScraping(ExtractionException)
    /\ Scraped =>
          /\ \A g \in GroupKeys : product_data.val[g].kind = "dict"
          /\ QuantityFault(site.doc) =>
                product_data.val["product_variations"]
                   = ExtractProductVariations(WithoutMax(site.doc))

\* a scrape has completed on a page where int(max) faults: the variation and
\* the current selection stored before the fault are in the record, and so is
\* the group of another extractor
C2_Witness ==
    /\ Scraped
    /\ printed = Completed
    /\ QuantityFault(site.doc)
    /\ DOMAIN Fields("product_variations") = {W("Color"), W("current_selection")}
    /\ "category" \in DOMAIN Fields("basic_info")

\* C3 as stated: when no extractor finds anything, the record has the keys url
\* and scraping_timestamp and no other.
C3_OnlyUrlAndTimestamp ==
    Scraped /\ site.doc \in BarrenPages =>
        DOMAIN product_data.val = {"url", "scraping_timestamp"}

\* C3 amended: when no extractor finds anything, the record has all thirteen
\* keys: url and scraping_timestamp are strings, every field group is an empty
\* mapping except basic_info, which holds the category 'Unknown', the product
\* id when the URL the browser is on carries one, and nothing else, and
\* page_language is 'en'.
C3_EmptyGroupsRecord ==
    Scraped /\ site.doc \in BarrenPages =>
        /\ DOMAIN product_data.val = ContractKeys
        /\ product_data.val["url"].kind = "str"
        /\ product_data.val["url"].val \in Urls
        /\ product_data.val["scraping_timestamp"].kind = "str"
        /\ \A g \in GroupKeys \ {"basic_info"} : product_data.val[g] = PyDict(EmptyMap)
        /\ DOMAIN Fields("basic_info")
              = {"category"} \cup IF Search(Landing(product_data.val["url"].val), ItemIdPattern).ok
                                  THEN {"product_id"} ELSE {}
        /\ Fields("basic_info")["category"] = PyStr(<<"Unknown">>)
        /\ product_data.val["page_language"] = PyStr(<<"en">>)

\* a scrape has completed on a page with elements in which nothing is found
C3_Witness ==
    /\ Scraped
    /\ site.doc \in BarrenPages
    /\ Len(site.doc) = 2
    /\ Fields("pricing") = EmptyMap

---------------------------------------------------------------------------
(* Selector cascades                                                       *)

\* selector k of sels is the first one that matches an element of doc
FirstMatching(doc, sels, k) ==
    /\ Select(doc, 0, sels[k]) # <<>>
    /\ \A j \in 1..(k - 1) : Select(doc, 0, sels[j]) = <<>>

\* the text of element n with the whitespace around it removed
StrippedText(doc, n) ==
    IF Children(doc, n) = {} THEN Strip(doc[n].text) ELSE GetText(doc, n, TRUE)

\* fields[name] is the stripped text of the first element matched by the first
\* selector of sels that matches anything, and is absent if none matches
FirstSelectorDecides(doc, fields, name, sels) ==
    /\ (name \in DOMAIN fields) <=> (\E k \in DOMAIN sels : Select(doc, 0, sels[k]) # <<>>)
    /\ \A k \in DOMAIN sels :
          FirstMatching(doc, sels, k) =>
              fields[name] = PyStr(StrippedText(doc, Select(doc, 0, sels[k])[1]))

\* C4: title, current_price and original_price are each the stripped text of
\* the element matched by the first selector, in the declared order, that
\* matches an element of the document, whatever the later selectors match and
\* wherever their elements stand; the field is absent when no selector matches.
C4_FirstSelectorDecides ==
    Scraped =>
        /\ FirstSelectorDecides(site.doc, Fields("basic_info"), "title", title_selectors)
        /\ FirstSelectorDecides(site.doc, Fields("pricing"), "current_price", price_selectors)
        /\ FirstSelectorDecides(site.doc, Fields("pricing"), "original_price",
                                original_price_selectors)

\* the first and the third title selector both match, the element of the third
\* stands first in the document, and the title is the stripped text of the
\* element of the first selector
C4_Witness ==
    /\ Scraped
    /\ Select(site.doc, 0, title_selectors[1]) # <<>>
    /\ Select(site.doc, 0, title_selectors[3]) # <<>>
    /\ Select(site.doc, 0, title_selectors[3])[1] < Select(site.doc, 0, title_selectors[1])[1]
    /\ Fields("basic_info")["title"] = PyStr(<<"W", "i", "r", "e", " ", "M", "o", "u", "s", "e">>)

HasDigit(text) == \E i \in DOMAIN text : text[i] \in Digits

\* the number the first run of digits of text spells
FirstNumber(text) ==
    LET first == SetMin({i \in DOMAIN text : text[i] \in Digits})
        last == SetMin({j \in first..Len(text) : j = Len(text) \/ text[j + 1] \notin Digits})
    IN  DigitsVal(SubSeq(text, first, last))

\* what makes element n decide the field, and the value it then gives
Usable(name, doc, n) ==
    CASE name = "review_count" -> HasDigit(GetText(doc, n, FALSE))
      [] name = "sold_count" -> /\ Contains(Lower(GetText(doc, n, FALSE)), <<"sold">>)
                                /\ HasDigit(GetText(doc, n, FALSE))
      [] name = "main_image" -> GetAttr(doc[n], "src", <<>>) # <<>>
      [] name = "brand" -> \/ StrippedText(doc, n) # <<>>
                           \/ GetAttr(doc[n], "data-brand", <<>>) # <<>>
      [] OTHER -> TRUE

ValueAt(name, doc, n) ==
    CASE name \in {"review_count", "sold_count"} -> PyInt(FirstNumber(GetText(doc, n, FALSE)))
      [] name = "main_image" -> PyStr(GetAttr(doc[n], "src", <<>>))
      [] name = "brand" -> PyStr(IF StrippedText(doc, n) # <<>> THEN StrippedText(doc, n)
                                 ELSE GetAttr(doc[n], "data-brand", <<>>))
      [] OTHER -> PyStr(StrippedText(doc, n))

\* the first selector of sels that matches an element decides fields[name]:
\* its first element gives the value, or no value and then the field is absent
FirstLocatorDecides(doc, fields, name, sels) ==
    /\ (\A k \in DOMAIN sels : Select(doc, 0, sels[k]) = <<>>) => name \notin DOMAIN fields
    /\ \A k \in DOMAIN sels :
          FirstMatching(doc, sels, k) =>
              IF Usable(name, doc, Select(doc, 0, sels[k])[1])
              THEN /\ name \in DOMAIN fields
                   /\ fields[name] = ValueAt(name, doc, Select(doc, 0, sels[k])[1])
              ELSE name \notin DOMAIN fields

\* selector k of sels is the first whose first element is usable
FirstUsable(doc, name, sels, k) ==
    /\ Select(doc, 0, sels[k]) # <<>>
    /\ Usable(name, doc, Select(doc, 0, sels[k])[1])
    /\ \A j \in 1..(k - 1) :
          Select(doc, 0, sels[j]) = <<>> \/ ~Usable(name, doc, Select(doc, 0, sels[j])[1])

\* the first selector of sels whose first element is usable decides
\* fields[name]; the field is absent when no selector has such an element
FirstUsableLocatorDecides(doc, fields, name, sels) ==
    /\ (name \in DOMAIN fields) <=> (\E k \in DOMAIN sels : FirstUsable(doc, name, sels, k))
    /\ \A k \in DOMAIN sels :
          FirstUsable(doc, name, sels, k) =>
              fields[name] = ValueAt(name, doc, Select(doc, 0, sels[k])[1])

---------------------------------------------------------------------------
(* The product id                                                          *)

\* the digits re.search(r'/item/(\d+)\.html', s) captures
ItemId(s) ==
    LET m == Search(s, ItemIdPattern)
    IN  IF m.ok THEN Some(Group(s, m, 2, 2)) ELSE None

\* the content of the og:url meta tag of the page, '' without one
OgUrlContent(doc) ==
    LET og == SelectOne(doc, 0, Sel1(ByAttr("meta", "property", "=", <<"og:", "url">>)))
    IN  IF og = 0 THEN <<>> ELSE GetAttr(doc[og], "content", <<>>)

\* the script blocks that hold a productId key
IdScripts(doc) ==
    {i \in DOMAIN doc : doc[i].tag = "script"
                        /\ Search(GetText(doc, i, FALSE), ProductIdPattern).ok}

\* the digits after the productId key of script block i
ScriptId(doc, i) ==
    LET text == GetText(doc, i, FALSE)
    IN  Some(Group(text, Search(text, ProductIdPattern), 7, 7))

\* the id of the first source that has one: og:url, the browser's URL, a script
FirstSourceId(doc, current_url) ==
    IF ItemId(OgUrlContent(doc)).some THEN ItemId(OgUrlContent(doc))
    ELSE IF ItemId(current_url).some THEN ItemId(current_url)
    ELSE IF IdScripts(doc) # {} THEN ScriptId(doc, SetMin(IdScripts(doc)))
    ELSE None

\* the URL the browser was on when the record was made
CurrentUrl == Landing(product_data.val["url"].val)

\* C6: product_id is the id of the first source that yields one, in the order
\* og:url meta tag of the form /item/<digits>.html, the URL the browser is on,
\* the first script block with a productId key; later sources do not change
\* it, and product_id is absent when no source yields an id.
C6_ProductIdPriority ==
    Scraped =>
        IF FirstSourceId(site.doc, CurrentUrl).some
        THEN /\ "product_id" \in DOMAIN Fields("basic_info")
             /\ Fields("basic_info")["product_id"]
                   = PyStr(FirstSourceId(site.doc, CurrentUrl).val)
        ELSE "product_id" \notin DOMAIN Fields("basic_info")

\* all three sources yield an id, three different ones, and product_id is the
\* one of the og:url meta tag
C6_Witness ==
    /\ Scraped
    /\ ItemId(OgUrlContent(site.doc)) = Some(<<"1", "0", "0", "5">>)
    /\ ItemId(CurrentUrl) = Some(<<"1", "2">>)
    /\ IdScripts(site.doc) # {}
    /\ Fields("basic_info")["product_id"] = PyStr(<<"1", "0", "0", "5">>)

---------------------------------------------------------------------------
(* Variation items of a page                                               *)

SetMax(S) == CHOOSE x \in S : \A y \in S : y <= x

\* the variation items of the page: those below its first wrapper
ItemsOf(doc) ==
    SkuItems(doc, SelectOne(doc, 0, << <<ByClass(W("sku--wrap--xgoW06M"))>>,
                                       <<ByClass(W("product-sku"))>>,
                                       <<ByClass(W("sku-wrap"))>> >>))

\* the title element of a variation item (0: none) and the name it spells
TitleOf(doc, item) ==
    SelectOne(doc, item, << <<ByClass(W("sku-item--title--Z0HLO87"))>>,
                            <<ByClass(W("variation-title"))>> >>)

NameOf(doc, item) == Strip(RemoveSym(GetText(doc, TitleOf(doc, item), TRUE), ":"))

\* the option elements of a variation item, in document order
OptionsOf(doc, item) ==
    Select(doc, item, << <<ByAttr("", "data-sku-col", "has", <<>>)>>,
                         <<ByClass(W("variation-option"))>> >>)

\* what is present for option element o: an image (with its alt text), a
\* text, the selected flag, the sold-out flag
KeysOf(doc, o) ==
    (IF SelectOne(doc, o, Sel1(ByTag("img"))) # 0 THEN {"image", "alt_text"} ELSE {})
    \cup (IF GetText(doc, o, TRUE) # <<>> THEN {"text"} ELSE {})
    \cup (IF AnyClassHas(doc[o], <<"selected">>) THEN {"selected"} ELSE {})
    \cup (IF AnyClassHas(doc[o], <<"sold", "Out">>) \/ AnyClassHas(doc[o], <<"sold-out">>)
          THEN {"sold_out"} ELSE {})

\* the option elements of a variation item for which something is present
RetainedOf(doc, item) == SelectSeq(OptionsOf(doc, item), LAMBDA o : KeysOf(doc, o) # {})

\* the positions in ItemsOf(doc) of the items titled name with a retained option
Writers(doc, name) ==
    {k \in DOMAIN ItemsOf(doc) :
        /\ TitleOf(doc, ItemsOf(doc)[k]) # 0
        /\ NameOf(doc, ItemsOf(doc)[k]) = name
        /\ RetainedOf(doc, ItemsOf(doc)[k]) # <<>>}

\* the variation axes of a product_variations mapping: its list entries
AxesOf(variations) == {name \in DOMAIN variations : variations[name].kind = "list"}

---------------------------------------------------------------------------
(* Unresolved and numeric fields                                           *)

\* the page has neither a breadcrumb link nor a category meta tag
CategoryUnresolved(doc) ==
    /\ Select(doc, 0, << <<ByClass(W("breadcrumb")), ByTag("a")>>,
                         <<ByClass(W("nav-breadcrumb")), ByTag("a")>> >>) = <<>>
    /\ SelectOne(doc, 0, Sel1(ByAttr("meta", "name", "=", W("category")))) = 0

\* C7 as stated: no field of a record holds a null, and a field that the page
\* does not resolve is absent: on a page without breadcrumb links and without
\* a category meta tag basic_info has no category.
C7_UnresolvedFieldsAbsent ==
    Scraped =>
        /\ \A g \in GroupKeys : \A f \in DOMAIN Fields(g) : Fields(g)[f].kind # "none"
        /\ CategoryUnresolved(site.doc) => "category" \notin DOMAIN Fields("basic_info")

\* every field of names that fields holds is a value of the kind
AllOfKind(fields, names, kind) == \A f \in names : f \in DOMAIN fields => fields[f].kind = kind

\* the element of the seller block a field is read from (0: none)
SellerElem(doc, name) ==
    CASE name = "store_rating" ->
             SelectOne(doc, 0, << <<ByClass(W("store-rating"))>>, <<ByClass(W("seller-rating"))>> >>)
      [] name = "followers" ->
             SelectOne(doc, 0, << <<ByClass(W("store-followers"))>>,
                                  <<ByClass(W("follower-count"))>> >>)
      [] name = "years_in_business" ->
             SelectOne(doc, 0, << <<ByClass(W("store-years"))>>,
                                  <<ByClass(W("years-in-business"))>> >>)

\* a seller field is present exactly when its element has a digit in its text
PresentIffNumber(doc, seller, name, n) ==
    (name \in DOMAIN seller) <=> (n # 0 /\ HasDigit(GetText(doc, n, FALSE)))

\* the entry max_quantity of product_variations, given the quantity element q:
\* the int its max attribute spells if it spells one; otherwise no number and
\* no text is stored, and only a variation titled max_quantity can hold the key
MaxQuantityIsNumber(doc, variations, q) ==
    IF q # 0 /\ doc[q].tag = "input" /\ IntParse(GetAttr(doc[q], "max", <<>>)).ok
    THEN /\ W("max_quantity") \in DOMAIN variations
         /\ variations[W("max_quantity")] = PyInt(IntParse(GetAttr(doc[q], "max", <<>>)).val)
    ELSE W("max_quantity") \in DOMAIN variations =>
             /\ W("max_quantity") \in AxesOf(variations)
             /\ Writers(doc, W("max_quantity")) # {}

---------------------------------------------------------------------------
(* Variation axes and their options                                        *)

\* C9 as stated: every option of every axis has an image, an alt text, the
\* selected flag or the sold-out flag.
C9_FourKeysRetain ==
    Scraped =>
        \A name \in AxesOf(Fields("product_variations")) :
            \A i \in DOMAIN Fields("product_variations")[name].val :
                DOMAIN Fields("product_variations")[name].val[i].val
                    \cap {"image", "alt_text", "selected", "sold_out"} # {}

\* the descriptors of options are those of the retained option elements of
\* item, one each and in document order, with the keys of what is present
DescribesRetained(doc, options, item) ==
    /\ Len(options) = Len(RetainedOf(doc, item))
    /\ \A i \in DOMAIN options : DOMAIN options[i].val = KeysOf(doc, RetainedOf(doc, item)[i])

\* C9 amended: an option is retained only if at least one of image element
\* (which gives image and alt_text), non-empty text, selected flag or sold-out
\* flag is present for it: the options of an axis are exactly the option
\* elements of its variation item for which one of these is present, and an
\* option element with none of them is not emitted.
C9_FiveKeysRetain ==
    Scraped =>
        \A name \in AxesOf(Fields("product_variations")) :
            /\ Writers(site.doc, name) # {}
            /\ DescribesRetained(site.doc, Fields("product_variations")[name].val,
                                 ItemsOf(site.doc)[SetMax(Writers(site.doc, name))])

\* an axis holds an option that has a text and none of image, alt text,
\* selected flag and sold-out flag, next to one whose image has no src
C9_Witness ==
    /\ Scraped
    /\ W("Color") \in AxesOf(Fields("product_variations"))
    /\ \E i \in DOMAIN Fields("product_variations")[W("Color")].val :
          DOMAIN Fields("product_variations")[W("Color")].val[i].val = {"text"}
    /\ \E i \in DOMAIN Fields("product_variations")[W("Color")].val :
          /\ DOMAIN Fields("product_variations")[W("Color")].val[i].val = {"image", "alt_text"}
          /\ Fields("product_variations")[W("Color")].val[i].val["image"] = PyStr(<<>>)

\* the key name of product_variations is taken by the current selection or by
\* the quantity limit
Overwritten(doc, name) ==
    \/ /\ name = W("current_selection")
       /\ SelectOne(doc, 0, << <<ByClass(W("sku--menuTitle--UIEMJcG"))>>,
                               <<ByClass(W("current-sku"))>> >>) # 0
    \/ /\ name = W("max_quantity")
       /\ QuantityElem(doc) # 0
       /\ doc[QuantityElem(doc)].tag = "input"
       /\ IntParse(GetAttr(doc[QuantityElem(doc)], "max", <<>>)).ok

\* the option elements of item are one with the selected flag only and one
\* with the sold-out flag only, in this order
SelectedThenSoldOut(doc, item) ==
    /\ Len(OptionsOf(doc, item)) = 2
    /\ KeysOf(doc, OptionsOf(doc, item)[1]) = {"selected"}
    /\ KeysOf(doc, OptionsOf(doc, item)[2]) = {"sold_out"}

\* C10: every axis of product_variations has at least one option; the title
\* of a variation item is an axis exactly when an item of that title has a
\* retained option (and the key is not taken by the current selection or the
\* quantity limit), so that a titled item without retained options gives no
\* axis; and an item whose options are a selected one and a sold-out one gives
\* the axis [{selected: true}, {sold_out: true}], in document order.
C10_AxesHaveOptions ==
    Scraped =>
        /\ \A name \in AxesOf(Fields("product_variations")) :
              Len(Fields("product_variations")[name].val) >= 1
        /\ \A k \in DOMAIN ItemsOf(site.doc) :
              TitleOf(site.doc, ItemsOf(site.doc)[k]) # 0 =>
                  (NameOf(site.doc, ItemsOf(site.doc)[k])
                       \in AxesOf(Fields("product_variations")))
                  <=> (/\ Writers(site.doc, NameOf(site.doc, ItemsOf(site.doc)[k])) # {}
                       /\ ~Overwritten(site.doc, NameOf(site.doc, ItemsOf(site.doc)[k])))
        /\ \A name \in AxesOf(Fields("product_variations")) :
              SelectedThenSoldOut(site.doc, ItemsOf(site.doc)[SetMax(Writers(site.doc, name))])
                  => Fields("product_variations")[name].val
                        = << PyDict("selected" :> PyBool(TRUE)),
                             PyDict("sold_out" :> PyBool(TRUE)) >>

\* the page has a titled item whose only option is dropped and an item with a
\* selected and a sold-out option: the first gives no axis, the second the
\* axis of these two options
C10_Witness ==
    /\ Scraped
    /\ \E k \in DOMAIN ItemsOf(site.doc) :
          /\ NameOf(site.doc, ItemsOf(site.doc)[k]) = W("Size")
          /\ OptionsOf(site.doc, ItemsOf(site.doc)[k]) # <<>>
    /\ DOMAIN Fields("product_variations") = {W("Color")}
    /\ Fields("product_variations")[W("Color")].val
          = << PyDict("selected" :> PyBool(TRUE)), PyDict("sold_out" :> PyBool(TRUE)) >>

---------------------------------------------------------------------------
(* Script variables                                                        *)

\* the script blocks of the page whose text holds an assignment to `global`
AssigningScripts(doc, global) ==
    {i \in DOMAIN doc : doc[i].tag = "script"
                        /\ Search(GetText(doc, i, FALSE), JsPattern(global)).ok}

\* the text the pattern of `global` captures in script block i: from the
\* opening brace to the first closing brace that a semicolon follows
AssignedText(doc, i, global) ==
    LET text == GetText(doc, i, FALSE)
    IN  Group(text, Search(text, JsPattern(global)), 5, 7)

\* the value stored for a captured text: parsed, or the text itself
ParsedOrRaw(raw) == IF JsonLoads(raw).ok THEN JsonLoads(raw).val ELSE PyStr(raw)

\* the key of js_patterns[k] is present exactly when a script block assigns its
\* global, and holds the value of the last such block
VariableKept(doc, js_data, k) ==
    LET key == js_patterns[k][1]
        scripts == AssigningScripts(doc, js_patterns[k][2])
    IN  /\ key \in DOMAIN js_data <=> scripts # {}
        /\ scripts # {} =>
               js_data[key] = ParsedOrRaw(AssignedText(doc, SetMax(scripts), js_patterns[k][2]))

\* C11: for each of runParams, DCData, productData and pageData that a script
\* block assigns, javascript_data holds the parsed value when the captured
\* text is JSON and the captured text itself when it is not; the key is never
\* missing because the parse failed, and javascript_data has no other keys.
\* window.runParams = {"foo": 1}; gives runParams = {"foo": 1}.
C11_ParsedOrRawKept ==
    Scraped =>
        /\ DOMAIN Fields("javascript_data") \subseteq {js_patterns[k][1] : k \in 1..4}
        /\ \A k \in 1..4 : VariableKept(site.doc, Fields("javascript_data"), k)
        /\ site.doc = Js_Foo =>
               Fields("javascript_data")
                   = [x \in {"runParams"} |-> PyDict([y \in {W("foo")} |-> PyInt(1)])]

\* a page whose runParams assignment is no JSON and whose pageData assignment
\* is: the record holds the raw text of the first and the parsed second
C11_Witness ==
    /\ Scraped
    /\ DOMAIN Fields("javascript_data") = {"runParams", "pageData"}
    /\ Fields("javascript_data")["runParams"] = PyStr(<<"{", "x", ":", "1", "}">>)
    /\ Fields("javascript_data")["pageData"]
           = PyDict([y \in {W("bar")} |-> PyList(<<>>)])

---------------------------------------------------------------------------
(* Individual reviews                                                      *)

\* the blocks the review locator matches, in document order
ReviewBlocks(doc) ==
    Select(doc, 0, << <<ByClass(W("list--itemDesc--JcxNPy5"))>>, <<ByClass(W("review-item"))>>,
                      <<ByClass(W("feedback-item"))>> >>)

\* the first ReviewLimit of them
LeadingBlocks(doc) ==
    SubSeq(ReviewBlocks(doc), 1,
           IF Len(ReviewBlocks(doc)) < ReviewLimit THEN Len(ReviewBlocks(doc)) ELSE ReviewLimit)

\* does block i yield any field of a review
Yields(doc, i) == ParseIndividualReview(doc, i) # EmptyMap

\* the leading blocks that yield a field
YieldingBlocks(doc) == SelectSeq(LeadingBlocks(doc), LAMBDA i : Yields(doc, i))

\* the list holds the reviews of `blocks`, one each, in their order
ReviewsOf(doc, reviews, blocks) ==
    /\ "individual_reviews" \in DOMAIN reviews <=> blocks # <<>>
    /\ blocks # <<>> =>
           /\ reviews["individual_reviews"].kind = "list"
           /\ Len(reviews["individual_reviews"].val) = Len(blocks)
           /\ \A k \in DOMAIN blocks :
                  reviews["individual_reviews"].val[k]
                      = PyDict(ParseIndividualReview(doc, blocks[k]))

\* C12 as claimed: with ten or more matching blocks individual_reviews has
\* exactly ten entries, those of the first ten blocks in document order.
C12_ExactlyTen ==
    Scraped /\ Len(ReviewBlocks(site.doc)) >= ReviewLimit =>
        ReviewsOf(site.doc, Fields("reviews_and_ratings"), LeadingBlocks(site.doc))

\* C12: individual_reviews holds, in document order, one entry for each of the
\* first ten matching blocks that yields a field, and nothing else: it never
\* has more than ten entries, has exactly ten when there are ten or more
\* blocks and each of the first ten yields a field, and blocks after the tenth
\* are never used.
C12_FirstTenYielding ==
    Scraped =>
        /\ ReviewsOf(site.doc, Fields("reviews_and_ratings"), YieldingBlocks(site.doc))
        /\ Len(YieldingBlocks(site.doc)) <= ReviewLimit
        /\ ( /\ Len(ReviewBlocks(site.doc)) >= ReviewLimit
             /\ \A k \in 1..ReviewLimit : Yields(site.doc, ReviewBlocks(site.doc)[k]) )
           => Len(Fields("reviews_and_ratings")["individual_reviews"].val) = ReviewLimit

\* a page with more than ten blocks that all yield a field: the list has ten
\* entries and its last is the tenth block
C12_Witness ==
    /\ Scraped
    /\ Len(ReviewBlocks(site.doc)) > ReviewLimit
    /\ Len(YieldingBlocks(site.doc)) = ReviewLimit
    /\ Len(Fields("reviews_and_ratings")["individual_reviews"].val) = ReviewLimit
    /\ Fields("reviews_and_ratings")["individual_reviews"].val[ReviewLimit]
           = PyDict([x \in {"review_text"} |-> PyStr(<<"1", "0">>)])

---------------------------------------------------------------------------
(* The gallery                                                             *)

\* C13: images.gallery_images never holds more entries than the cap of the
\* list-producing extractors (the ten of individual_reviews), however many
\* images the script data or the gallery img tags of the page contain.
C13_GalleryCapped ==
    Scraped /\ "gallery_images" \in DOMAIN Fields("images") =>
        \/ Fields("images")["gallery_images"].kind # "list"
        \/ Len(Fields("images")["gallery_images"].val) <= ReviewLimit

---------------------------------------------------------------------------
(* The page language                                                       *)

\* the language the character classes find in the text sample, 'en' if none
SampleLanguage(doc) ==
    LET sample == TakeChars(GetText(doc, 0, FALSE), SampleLen)
    IN  IF \E i \in DOMAIN sample : sample[i] \in PolishChars THEN W("pl")
        ELSE IF \E i \in DOMAIN sample : sample[i] \in FrenchChars THEN W("fr")
        ELSE IF \E i \in DOMAIN sample : sample[i] \in GermanChars THEN W("de")
        ELSE W("en")

\* the lang attribute of the first html element, '' without one
HtmlLang(doc) ==
    LET html == {i \in DOMAIN doc : doc[i].tag = "html"}
    IN  IF html = {} THEN <<>> ELSE GetAttr(doc[SetMin(html)], "lang", <<>>)

\* the content of the first language meta tag, '' without one
MetaLanguage(doc) ==
    LET metas == {i \in DOMAIN doc : /\ doc[i].tag = "meta"
                                     /\ GetAttr(doc[i], "name", <<>>) = W("language")}
    IN  IF metas = {} THEN <<>> ELSE GetAttr(doc[SetMin(metas)], "content", <<>>)

\* C14: page_language is the html lang attribute when that is set, else the
\* language of the language meta tag when that names one, else the language
\* the character classes find in the text sample, else 'en'; it always names
\* a language.
C14_LanguageByPriority ==
    Scraped =>
        /\ product_data.val["page_language"]
               = PyStr(IF HtmlLang(site.doc) # <<>> THEN HtmlLang(site.doc)
                       ELSE IF MetaLanguage(site.doc) # <<>> THEN MetaLanguage(site.doc)
                       ELSE SampleLanguage(site.doc))
        /\ product_data.val["page_language"].val # <<>>

---------------------------------------------------------------------------
(* Numeric coercion                                                        *)

\* the decimal places a suffix moves the point by: 3 for k, 6 for m
SuffixPlaces(clean_text) ==
    IF clean_text = <<>> THEN 0
    ELSE IF clean_text[Len(clean_text)] \in {"k", "K"} THEN 3
    ELSE IF clean_text[Len(clean_text)] \in {"m", "M"} THEN 6
    ELSE 0

RECURSIVE StripLeadingZeros(_)
StripLeadingZeros(ds) ==
    IF ds # <<>> /\ Head(ds) = "0" THEN StripLeadingZeros(Tail(ds)) ELSE ds

\* the whole part of the decimal numeral s times 10^places, as digit symbols:
\* the digits before the point followed by the first `places` digits after it
DecimalShifted(s, places) ==
    LET point == IF \E i \in DOMAIN s : s[i] = "." THEN CHOOSE i \in DOMAIN s : s[i] = "."
                 ELSE Len(s) + 1
        fraction == SubSeq(s, point + 1, Len(s)) \o [i \in 1..places |-> "0"]
        Shown(ds) == IF ds = <<>> THEN <<"0">> ELSE ds
    IN  Shown(StripLeadingZeros(SubSeq(s, 1, point - 1) \o SubSeq(fraction, 1, places)))

\* the number the coercion policy gives a text: what is left of it after the
\* characters other than digits, '.', k, K, m, M are removed, without its
\* suffix, is a decimal numeral (digits, at most one point) or there is no value
CoercedNumber(t) ==
    LET Valued(s, places) ==
            IF /\ \A i \in DOMAIN s : s[i] \in Digits \cup {"."}
               /\ Cardinality({i \in DOMAIN s : s[i] = "."}) <= 1
               /\ \E i \in DOMAIN s : s[i] \in Digits
            THEN PyLong(DecimalShifted(s, places))
            ELSE PyNone
        Cleaned(c) ==
            Valued(IF SuffixPlaces(c) = 0 THEN c ELSE SubSeq(c, 1, Len(c) - 1), SuffixPlaces(c))
    IN  Cleaned(SelectSeq(t, LAMBDA c : c \in Digits \cup {".", "k", "K", "m", "M"}))

---------------------------------------------------------------------------
(* Pricing                                                                 *)

\* no price locator matches an element of doc
NoPriceLocator(doc) == \A k \in DOMAIN price_selectors : Select(doc, 0, price_selectors[k]) = <<>>

\* the field holds the text if its element was found, and is absent otherwise
FoundText(fields, key, elem, found_text) ==
    IF elem # 0 THEN key \in DOMAIN fields /\ fields[key] = PyStr(found_text)
    ELSE key \notin DOMAIN fields

\* the first element, in the order of the selectors, that a selector matches
FirstLocated(doc, sels) ==
    LET matching == {k \in DOMAIN sels : Select(doc, 0, sels[k]) # <<>>}
    IN  IF matching = {} THEN 0
        ELSE Head(Select(doc, 0, sels[CHOOSE k \in matching : \A j \in matching : k <= j]))

\* C18: on a document in which no price locator matches, the pricing extractor
\* raises no error and returns a mapping without current_price and without
\* currency; original_price, bulk_price, discount and tax_info are present
\* exactly as found.
C18_NoPriceNoError ==
    (Scraped /\ NoPriceLocator(site.doc)) =>
        /\ product_data.val["pricing"].kind = "dict"
        /\ "current_price" \notin DOMAIN Fields("pricing")
        /\ "currency" \notin DOMAIN Fields("pricing")
        /\ FoundText(Fields("pricing"), "original_price",
                     FirstLocated(site.doc, original_price_selectors),
                     StrippedText(site.doc, FirstLocated(site.doc, original_price_selectors)))
        /\ FoundText(Fields("pricing"), "bulk_price", FindString(site.doc, BulkPatterns),
                     StrippedText(site.doc, FindString(site.doc, BulkPatterns)))
        /\ FoundText(Fields("pricing"), "discount",
                     SelectOne(site.doc, 0, << <<ByClass(W("discount-percent"))>>,
                                               <<ByClass(W("sale-percent"))>> >>),
                     StrippedText(site.doc,
                                  SelectOne(site.doc, 0, << <<ByClass(W("discount-percent"))>>,
                                                            <<ByClass(W("sale-percent"))>> >>)))
        /\ FoundText(Fields("pricing"), "tax_info", FindString(site.doc, TaxPatterns),
                     StrippedText(site.doc, FindString(site.doc, TaxPatterns)))

\* the page without a price: the four other pricing fields, and nothing else
C18_Witness ==
    /\ Scraped
    /\ NoPriceLocator(site.doc)
    /\ DOMAIN Fields("pricing") = {"original_price", "bulk_price", "discount", "tax_info"}
    /\ Fields("pricing")["bulk_price"] = PyStr(<<"$", "5", " ", "per piece">>)

\* the three upper-case letters or the currency symbol a price begins with
LeadingToken(price) ==
    IF Len(price) >= 3 /\ \A i \in 1..3 : price[i] \in UpperLetters THEN Some(SubSeq(price, 1, 3))
    ELSE IF price # <<>> /\ price[1] \in CurrencySymbols THEN Some(<<price[1]>>)
    ELSE None

\* currency is there exactly when current_price is and begins with a token,
\* and is that token; current_price is text
CurrencyIsLeadingToken(pricing) ==
    /\ "current_price" \in DOMAIN pricing => pricing["current_price"].kind = "str"
    /\ "currency" \in DOMAIN pricing <=>
           ("current_price" \in DOMAIN pricing /\ LeadingToken(pricing["current_price"].val).some)
    /\ "currency" \in DOMAIN pricing =>
           pricing["currency"] = PyStr(LeadingToken(pricing["current_price"].val).val)

\* C19: pricing.currency is present exactly when current_price is present and
\* begins with three upper-case letters or one of the six currency symbols,
\* and is then that leading token; current_price is stored as text; the
\* currency is a function of current_price alone, whatever language and
\* meta tags the page has.
C19_CurrencyFromPrice ==
    Scraped => CurrencyIsLeadingToken(Fields("pricing"))

\* a price 'USD 5' with currency 'USD', and no other source of a currency
C19_Witness ==
    /\ Scraped
    /\ "current_price" \in DOMAIN Fields("pricing")
    /\ Fields("pricing")["current_price"] = PyStr(<<"U", "S", "D", " ", "5">>)
    /\ Fields("pricing")["currency"] = PyStr(<<"U", "S", "D">>)

\* a price without a token on a page that names a currency in a meta tag and a
\* language: no currency
C19_WitnessNoToken ==
    /\ Scraped
    /\ "current_price" \in DOMAIN Fields("pricing")
    /\ Fields("pricing")["current_price"] = PyStr(<<"9", ".", "9", "9">>)
    /\ product_data.val["page_language"] = PyStr(W("pl"))
    /\ DOMAIN Fields("meta_tags") # {}
    /\ "currency" \notin DOMAIN Fields("pricing")

---------------------------------------------------------------------------
(* Fetch failure and empty pages                                           *)

\* the last scrape_product call returned a mapping: {} exactly when its last
\* line reports one of the exceptions, and the full record otherwise
EmptyExactlyOn(exceptions) ==
    (returned.kind = "dict") =>
        /\ returned = PyDict(EmptyMap) <=> printed \in {ErrorDuringScraping(e) : e \in exceptions}
        /\ returned # PyDict(EmptyMap) =>
               /\ printed = Completed
               /\ returned = product_data
               /\ DOMAIN returned.val = ContractKeys

\* C20 as stated: scrape_product returns {} exactly when navigation or the
\* wait for the page elements fails.
C20_EmptyOnNavigationOrWait == EmptyExactlyOn({WebDriverException, TimeoutException})

\* C20: scrape_product returns {} exactly when a browser step raises before
\* the record is assembled (navigation, the wait, a scroll, page_source), and
\* once the markup was obtained it returns a full record, even one whose
\* field groups are all empty.
C20_EmptyOnBrowserFailure ==
    EmptyExactlyOn({WebDriverException, TimeoutException, NoSuchWindowException})

\* a page without content was scraped: its record has the thirteen keys and
\* nothing found in any field group (the category is the stand-in 'Unknown');
\* the next call timed out and returned {}
C20_Witness ==
    /\ Scraped
    /\ site.doc = EmptyPage
    /\ \A g \in GroupKeys \ {"basic_info"} : Fields(g) = EmptyMap
    /\ DOMAIN Fields("basic_info") = {"category"}
    /\ DOMAIN product_data.val = ContractKeys
    /\ returned = PyDict(EmptyMap)
    /\ printed = ErrorDuringScraping(TimeoutException)

---------------------------------------------------------------------------
(* Idempotence                                                             *)

\* a record without its scraping_timestamp
Untimed(rec) == [k \in DOMAIN rec.val \ {"scraping_timestamp"} |-> rec.val[k]]

\* the record the first scrape_product(url) of a new scraper gives on the site
FreshRecord(url) ==
    ExtractAllData(site.doc, url, [open |-> TRUE, current_url |-> Landing(url)], 0)

---------------------------------------------------------------------------
(* Count fields                                                            *)

\* the text a count is read from: that of the first element, in the order of
\* the selectors, whose text holds a digit and the word, if there is one
CountSource(doc, selectors, word) ==
    LET Text(k) == GetText(doc, SelectOne(doc, 0, selectors[k]), FALSE)
        deciding == {k \in DOMAIN selectors :
                        /\ SelectOne(doc, 0, selectors[k]) # 0
                        /\ HasDigit(Text(k))
                        /\ Contains(Lower(Text(k)), word)}
    IN  IF deciding = {} THEN None
        ELSE Some(Text(CHOOSE k \in deciding : \A j \in deciding : k <= j))

\* the field holds the number the coercion policy gives the source text, and
\* is absent when there is no source text or the policy gives it no value
FollowsPolicy(fields, name, source) ==
    IF source.some /\ CoercedNumber(source.val) # PyNone
    THEN /\ name \in DOMAIN fields
         /\ fields[name] = PyInt(DigitsVal(CoercedNumber(source.val).val))
    ELSE name \notin DOMAIN fields

\* C15: review_count, sold_count and followers follow the k/m-suffix
\* coercion policy ('12.5k' yields 12500, '3.2m' yields 3200000), and a text
\* that does not parse after stripping leaves the field absent.
C15_CountsFollowPolicy ==
    Scraped =>
        /\ FollowsPolicy(Fields("reviews_and_ratings"), "review_count",
                         CountSource(site.doc, review_selectors, <<>>))
        /\ FollowsPolicy(Fields("reviews_and_ratings"), "sold_count",
                         CountSource(site.doc, sold_selectors, W("sold")))
        /\ FollowsPolicy(Fields("seller_info"), "followers",
                         CountSource(site.doc, <<FollowerSelectors>>, <<>>))

\* C16: _extract_number_from_text removes every character other than digits,
\* '.' and k/K/m/M, multiplies by 1000 for a trailing k and by 1000000 for a
\* trailing m and returns the integer ('12.3k' gives 12300, '2.1m' gives
\* 2100000, '1,234' gives 1234); a text with nothing parsable left gives no
\* value.
C16_NumberCoercion ==
    number # NotCalled => number = CoercedNumber(number_text)

---------------------------------------------------------------------------
(* Driver lifecycle                                                        *)

\* a step of a scraper without a driver: the driver stays away, a
\* scrape_product call raises, and nothing else of the scraper changes
StepWithoutDriver ==
    ~driver.open =>
        /\ driver' = driver
        /\ clock' # clock => returned' = PyException
        /\ clock' = clock => returned' = returned
        /\ UNCHANGED <<product_data, printed>>

\* the step in which the driver goes away changes nothing but the driver
ClosingStep ==
    (driver.open /\ ~driver'.open) =>
        /\ driver'.current_url = driver.current_url
        /\ UNCHANGED <<product_data, returned, printed, clock>>

\* C26: after close() the driver is None, a second close() changes nothing,
\* scrape_product called after close() raises 'Driver not initialized' to
\* its caller instead of returning an empty record, and the driver is never
\* re-created after close().
C26_DriverLifecycle == [][StepWithoutDriver /\ ClosingStep]_vars

\* a scrape completed, the scraper was closed, and a later scrape_product
\* raised: the record is still there and no {} was returned
C26_Witness ==
    /\ ~driver.open
    /\ Scraped
    /\ returned = PyException
    /\ printed = Completed

---------------------------------------------------------------------------
(* Failed scrapes and the stored record                                    *)

\* a scrape_product call that returned {}
FailedScrape == clock' # clock /\ returned' = PyDict(EmptyMap)

\* the file save_to_json has just written holds the stored record, and
\* print_summary has just shown its URL
ActsOnStoredRecord ==
    /\ (Len(printed) > 1 /\ printed[1] = "Data saved to") =>
           /\ Tail(printed) \in DOMAIN files
           /\ files[Tail(printed)] = JsonText(product_data)
    /\ (Len(printed) > 1 /\ printed[1] = "ALIEXPRESS LIVE SCRAPING SUMMARY") =>
           SubSeq(printed, 3, 2 + Len(product_data.val["url"].val)) = product_data.val["url"].val

\* C27: a failed scrape_product returns an empty mapping and leaves
\* product_data unchanged, so after a successful scrape of one URL and a
\* failed scrape of another save_to_json and print_summary act on the record
\* of the first.
C27_FailureKeepsRecord == [][FailedScrape => UNCHANGED product_data]_vars /\ []ActsOnStoredRecord

\* the item was scraped, the scrape of the home page failed and left the
\* browser there, and save_to_json then wrote the record of the item
C27_Witness ==
    /\ Scraped
    /\ product_data.val["url"].val = ItemUrl(<<"1", "2">>)
    /\ driver.current_url = Landing(HomeUrl)
    /\ Len(printed) > 1 /\ printed[1] = "Data saved to"
    /\ files[Tail(printed)].val.val["url"].val = ItemUrl(<<"1", "2">>)

---------------------------------------------------------------------------
(* Script blocks assigning the same variable                               *)

\* the captured text of script block i parses as JSON
BlockParses(doc, i, global) == JsonLoads(AssignedText(doc, i, global)).ok

\* the last of the script blocks assigning `global` decides the key: its
\* parsed value, or its captured text when that does not parse, whatever
\* the blocks before it gave
LastBlockDecides(doc, js_data, key, global) ==
    \A j \in AssigningScripts(doc, global) :
        (\A i \in AssigningScripts(doc, global) : i <= j) =>
            /\ key \in DOMAIN js_data
            /\ BlockParses(doc, j, global) =>
                   js_data[key] = JsonLoads(AssignedText(doc, j, global)).val
            /\ ~BlockParses(doc, j, global) =>
                   js_data[key] = PyStr(AssignedText(doc, j, global))

\* C28: the script-data extractor scans every script block without stopping
\* at the first match: when several blocks assign the same known variable,
\* javascript_data keeps the value from the last such block in document
\* order, and a later block whose value fails to parse replaces an earlier
\* block's parsed value with raw text.
C28_LastBlockWins ==
    (Scraped /\ returned = product_data) =>
        \A k \in DOMAIN js_patterns :
            LastBlockDecides(site.doc, Fields("javascript_data"), js_patterns[k][1],
                             js_patterns[k][2])

\* two blocks assign window.runParams, the first with JSON and the last
\* without: runParams is the raw text of the last
C28_Witness ==
    /\ Scraped
    /\ Cardinality(AssigningScripts(site.doc, "window.runParams")) = 2
    /\ \E i, j \in AssigningScripts(site.doc, "window.runParams") :
           /\ i < j
           /\ BlockParses(site.doc, i, "window.runParams")
           /\ ~BlockParses(site.doc, j, "window.runParams")
    /\ Fields("javascript_data")["runParams"] = PyStr(<<"{", "x", ":", "1", "}">>)

\* two blocks assign window.runParams, the last with JSON: runParams is its
\* parsed value
C28_WitnessParsedLast ==
    /\ Scraped
    /\ \E i, j \in AssigningScripts(site.doc, "window.runParams") :
           /\ i < j
           /\ ~BlockParses(site.doc, i, "window.runParams")
           /\ BlockParses(site.doc, j, "window.runParams")
    /\ Fields("javascript_data")["runParams"] = PyDict([y \in {W("foo")} |-> PyInt(1)])

---------------------------------------------------------------------------
(* Keys of product_variations written more than once                       *)

\* the current-selection element of the page (0: none)
CurrentSelectionElem(doc) ==
    SelectOne(doc, 0, << <<ByClass(W("sku--menuTitle--UIEMJcG"))>>, <<ByClass(W("current-sku"))>> >>)

\* what the page gives a key that an axis and the current selection or the
\* quantity limit both write
Replacement(doc, name) ==
    IF name = W("current_selection") THEN PyStr(StrippedText(doc, CurrentSelectionElem(doc)))
    ELSE PyInt(IntParse(GetAttr(doc[QuantityElem(doc)], "max", <<>>)).val)

\* the options the variation item at position k of the page gives its name
AxisOf(doc, k) == ParseVariationItem(doc, ItemsOf(doc)[k])[NameOf(doc, ItemsOf(doc)[k])]

\* C29: keys of product_variations are written last-writer-wins: of two axes
\* with the same title only the later one in document order remains, an axis
\* titled 'current_selection' or 'max_quantity' is replaced by the
\* current-selection text or the quantity limit when those are found, and an
\* axis that has options but no title element is not emitted.
C29_LastWriterWins ==
    (Scraped /\ returned = product_data) =>
        \A items \in {ItemsOf(site.doc)} :
            /\ \A k \in DOMAIN items :
                  \A name \in {NameOf(site.doc, items[k])} :
                      \A writers \in {Writers(site.doc, name)} :
                          k \in writers =>
                              Fields("product_variations")[name]
                                  = IF Overwritten(site.doc, name) THEN Replacement(site.doc, name)
                                    ELSE AxisOf(site.doc, SetMax(writers))
            /\ \A name \in AxesOf(Fields("product_variations")) : Writers(site.doc, name) # {}

\* two items titled Color give options: the axis is that of the second and
\* differs from that of the first
C29_Witness ==
    /\ Scraped
    /\ Cardinality(Writers(site.doc, W("Color"))) = 2
    /\ Fields("product_variations")[W("Color")] = AxisOf(site.doc, SetMax(Writers(site.doc, W("Color"))))
    /\ \E k \in Writers(site.doc, W("Color")) :
           AxisOf(site.doc, k) # Fields("product_variations")[W("Color")]

\* items titled current_selection and max_quantity on a page with the current
\* selection and a quantity limit: the keys hold the text and the number
C29_WitnessReplaced ==
    /\ Scraped
    /\ Writers(site.doc, W("current_selection")) # {}
    /\ Writers(site.doc, W("max_quantity")) # {}
    /\ Fields("product_variations")[W("current_selection")] = PyStr(<<"R", "e", "d">>)
    /\ Fields("product_variations")[W("max_quantity")] = PyInt(5)

\* an item with an option and no title element: no axis
C29_WitnessUntitled ==
    /\ Scraped
    /\ \E k \in DOMAIN ItemsOf(site.doc) :
           /\ TitleOf(site.doc, ItemsOf(site.doc)[k]) = 0
           /\ RetainedOf(site.doc, ItemsOf(site.doc)[k]) # <<>>
    /\ Fields("product_variations") = EmptyMap

---------------------------------------------------------------------------
(* The locale heuristic                                                    *)

\* neither the html lang attribute nor a language meta tag decides the
\* language of the page
HeuristicDecides(doc) ==
    /\ HtmlLang(doc) = <<>>
    /\ \A i \in DOMAIN doc :
           ~(doc[i].tag = "meta" /\ GetAttr(doc[i], "name", <<>>) = W("language"))

\* the first 1000 characters of the page text
SampleOf(doc) == TakeChars(GetText(doc, 0, FALSE), SampleLen)

\* the sample holds a character of the set
SampleHas(sample, chars) == \E i \in DOMAIN sample : sample[i] \in chars

\* the language the order pl, fr, de gives the sample
LocaleOf(sample, language) ==
    /\ language = PyStr(W("pl")) <=> SampleHas(sample, PolishChars)
    /\ language = PyStr(W("fr"))
           <=> (~SampleHas(sample, PolishChars) /\ SampleHas(sample, FrenchChars))
    /\ language = PyStr(W("de"))
           <=> (/\ SampleHas(sample, {"eszett"})
                /\ ~SampleHas(sample, PolishChars \cup FrenchChars))
    /\ language = PyStr(W("en"))
           <=> ~SampleHas(sample, PolishChars \cup FrenchChars \cup {"eszett"})

\* C30: the locale heuristic tests 'pl' before 'fr' before 'de' on the first
\* 1000 characters of page text only: 'de' is returned only when the sample
\* contains the sharp s and no character of the Polish or French classes (the
\* umlauts are in the French class), and a sample with characters of several
\* classes gets the earliest class in that order.
C30_LocaleOrder ==
    (Scraped /\ HeuristicDecides(site.doc)) =>
        \A sample \in {SampleOf(site.doc)} : LocaleOf(sample, product_data.val["page_language"])

\* a text with an umlaut and a sharp s: 'fr'
C30_Witness ==
    /\ Scraped
    /\ HeuristicDecides(site.doc)
    /\ SampleHas(SampleOf(site.doc), {"eszett"})
    /\ SampleHas(SampleOf(site.doc), {"u-uml"})
    /\ product_data.val["page_language"] = PyStr(W("fr"))

\* a text with a sharp s and no other character of the classes: 'de'
C30_WitnessGerman ==
    /\ Scraped
    /\ HeuristicDecides(site.doc)
    /\ product_data.val["page_language"] = PyStr(W("de"))

\* a Polish character after the first 1000 characters: 'en'
C30_WitnessBeyondSample ==
    /\ Scraped
    /\ HeuristicDecides(site.doc)
    /\ SampleHas(GetText(site.doc, 0, FALSE), PolishChars)
    /\ product_data.val["page_language"] = PyStr(W("en"))

\* characters of the Polish and of the French class: 'pl'
C30_WitnessSeveral ==
    /\ Scraped
    /\ HeuristicDecides(site.doc)
    /\ SampleHas(SampleOf(site.doc), FrenchChars \ PolishChars)
    /\ product_data.val["page_language"] = PyStr(W("pl"))

---------------------------------------------------------------------------
(* scrape_batch: every URL once, in list order                             *)

\* the URLs of the events of one kind, in the order they happened
UrlsOf(log, ev) == [k \in DOMAIN SelectSeq(log, LAMBDA e : e.ev = ev) |-> SelectSeq(log, LAMBDA e : e.ev = ev)[k].url]

\* the iterations begun: one more than those ended when an interrupt cut the
\* last one short
Begun == IF batch.log # <<>> /\ batch.log[Len(batch.log)].ev = "interrupt" THEN batch.i + 1 ELSE batch.i

\* the iterations of the call were for the first URLs of the list, one each
\* and in order, no URL was fetched twice or out of turn, and a call that
\* returned its summary went through the whole list
AttemptsInOrder ==
    /\ batch.i <= Len(batch.urls)
    /\ Begun <= Len(batch.urls)
    /\ UrlsOf(batch.log, "url") = SubSeq(batch.urls, 1, Begun)
    /\ \A k \in DOMAIN batch.log :
           batch.log[k].ev = "fetch" =>
               /\ \E j \in 1..(k - 1) :
                      /\ batch.log[j] = Event("url", batch.log[k].url, 0)
                      /\ \A m \in (j + 1)..(k - 1) : batch.log[m].ev = "sleep"
    /\ batch.summary.kind = "dict" => batch.i = Len(batch.urls)

\* a step of the loop that stays in the loop
LoopStep == batch.pc = "loop" /\ batch'.pc = "loop" /\ batch' # batch

\* the step ends the iteration for the next URL of the list with one entry
\* for that URL, in results or, with its error, in failed_urls
RecordsThisUrl ==
    /\ batch'.i = batch.i + 1
    /\ batch'.urls = batch.urls
    /\ \/ /\ Len(batch'.results) = Len(batch.results) + 1
          /\ SubSeq(batch'.results, 1, Len(batch.results)) = batch.results
          /\ batch'.results[Len(batch'.results)].val["url"] = PyStr(ThisUrl)
          /\ batch'.failed_urls = batch.failed_urls
          /\ batch'.successful = batch.successful + 1
          /\ batch'.failed = batch.failed
       \/ /\ Len(batch'.failed_urls) = Len(batch.failed_urls) + 1
          /\ SubSeq(batch'.failed_urls, 1, Len(batch.failed_urls)) = batch.failed_urls
          /\ batch'.failed_urls[Len(batch'.failed_urls)].val["url"] = PyStr(ThisUrl)
          /\ batch'.failed_urls[Len(batch'.failed_urls)].val["error"].val
                 \in {NoProductData, SleepLengthNegative, CannotWrite}
          /\ batch'.results = batch.results
          /\ batch'.failed = batch.failed + 1
          /\ batch'.successful = batch.successful

\* C21: scrape_batch goes through its list in order, one iteration for each
\* URL: every iteration ends with one entry for its URL, in results or (an
\* exception, an empty record) with the error in failed_urls, and the loop
\* goes on with the next URL; no URL is fetched twice, none is left out
C21_EveryUrlOnce == [][LoopStep => RecordsThisUrl]_vars /\ []AttemptsInOrder

\* a summary was returned for a list of two URLs, the first of which failed
\* and the second of which was saved
C21_Witness ==
    /\ batch.summary.kind = "dict"
    /\ Len(batch.urls) = 2
    /\ batch.failed = 1
    /\ batch.successful = 1
    /\ batch.failed_urls[Len(batch.failed_urls)].val["url"] = PyStr(batch.urls[1])
    /\ batch.results[Len(batch.results)].val["url"] = PyStr(batch.urls[2])
    /\ UrlsOf(batch.log, "fetch") = batch.urls

---------------------------------------------------------------------------
(* scrape_batch: the pacing delay                                          *)

\* the places of the log where a URL was fetched
Fetches(log) == {k \in DOMAIN log : log[k].ev = "fetch"}

\* the event is a sleep of rate_limit to rate_limit + 2 seconds
PacingSleep(e) ==
    /\ e.ev = "sleep"
    /\ e.d >= batch.rate_limit
    /\ e.d <= batch.rate_limit + MaxJitter

\* nothing was slept before the fetch at k, the first of the call
Unpaced(log, k) == \A j \in 1..(k - 1) : log[j].ev # "sleep"

\* one sleep, of the right length, lies between the fetch at p and the next
\* fetch at k, and it ends as the fetch at k begins
Paced(log, p, k) ==
    /\ PacingSleep(log[k - 1])
    /\ \A j \in (p + 1)..(k - 2) : log[j].ev # "sleep"

\* C22: no delay is slept before the first fetch of a scrape_batch call, and
\* between every two consecutive fetches one delay of at least rate_limit and
\* at most rate_limit + 2 seconds is slept, whether the earlier fetch ended in
\* a saved record or in a failure
C22_Pacing ==
    \A k \in Fetches(batch.log) :
        IF \A p \in Fetches(batch.log) : p >= k
        THEN Unpaced(batch.log, k)
        ELSE \A p \in Fetches(batch.log) :
                 (p < k /\ \A q \in Fetches(batch.log) : ~(p < q /\ q < k)) => Paced(batch.log, p, k)

\* the first fetch of a call failed, the longest delay was slept and the
\* second URL was fetched and saved
C22_Witness ==
    /\ batch.pc = "loop"
    /\ batch.i = 2
    /\ batch.failed = 1
    /\ batch.successful = 1
    /\ batch.results[Len(batch.results)].val["url"] = PyStr(batch.urls[2])
    /\ batch.log = <<Event("url", batch.urls[1], 0), Event("fetch", batch.urls[1], 0),
                     Event("url", batch.urls[2], 0),
                     Event("sleep", <<>>, DefaultRateLimit + MaxJitter),
                     Event("fetch", batch.urls[2], 0)>>

---------------------------------------------------------------------------
(* scrape_batch: what is left when the loop is left                        *)

\* the step takes scrape_batch out of its URL loop
LeavesLoop == batch.pc = "loop" /\ batch'.pc # "loop"

\* the call ended in an exception that the per-URL handler does not catch
Interrupted(b) == b.summary = Raised(KeyboardInterrupt)

\* the files named in the results of the instance
SavedProducts(b) == {b.results[k].val["filename"].val : k \in DOMAIN b.results}

\* the browser is closed as the loop is left; an interrupt writes no file,
\* so no summary, and takes none away
ClosesOnLeaving ==
    LeavesLoop =>
        /\ ~driver'.open
        /\ Interrupted(batch') => files' = files

\* outside the loop there is no open browser and every product file entered
\* in results is there
NothingLeftOpen ==
    batch.pc = "idle" =>
        /\ ~driver.open
        /\ SavedProducts(batch) \subseteq DOMAIN files

\* C25: when scrape_batch leaves its URL loop, at the end of the list or
\* through a KeyboardInterrupt that passes the per-URL handler, the browser
\* is closed; an interrupted call writes no batch summary and the product
\* files saved before the interrupt stay
C25_ClosedOnExit == [][ClosesOnLeaving]_vars /\ []NothingLeftOpen

\* a call interrupted at its second URL after the first was saved: the
\* browser is closed, the product file is there and no summary file is
C25_Witness ==
    /\ Interrupted(batch)
    /\ batch.successful = 1
    /\ ~driver.open
    /\ batch.finished = <<Ended(batch, KeyboardInterrupt)>>
    /\ DOMAIN files = SavedProducts(batch)
    /\ Cardinality(DOMAIN files) = 1

\* a call that went through its list and returned: the browser is closed
\* and the summary file is written
C25_WitnessReturned ==
    /\ batch.summary.kind = "dict"
    /\ batch.successful = 1
    /\ ~driver.open
    /\ SummaryFilename(clock) \in DOMAIN files

---------------------------------------------------------------------------
(* scrape_batch: the counts and the lists of the summary                   *)

RECURSIVE Successes(_)
\* the URLs saved by the calls that ended with these counts
Successes(ended) ==
    IF ended = <<>> THEN 0 ELSE ended[1].successful + Successes(Tail(ended))

RECURSIVE Failures(_)
\* the URLs these calls recorded as failed
Failures(ended) ==
    IF ended = <<>> THEN 0 ELSE ended[1].failed + Failures(Tail(ended))

\* the call that ended last returned a summary
SummaryReturned == batch.pc = "idle" /\ batch.summary.kind = "dict"

\* the calls that ended before the last one
EarlierCalls == SubSeq(batch.finished, 1, Len(batch.finished) - 1)

\* the counts of the summary add up, and the rate of an empty list is 0
CountsAddUp(summary) ==
    /\ summary["total_urls"] = PyInt(Len(batch.urls))
    /\ summary["successful"].val + summary["failed"].val = summary["total_urls"].val
    /\ summary["total_urls"].val = 0 => summary["success_rate"] = PyInt(0)

\* the lists of the summary are those of the instance and hold one entry for
\* every success and every failure of every call so far
RunningTotals(summary) ==
    /\ summary["results"].val = batch.results
    /\ summary["failed_urls"].val = batch.failed_urls
    /\ Len(summary["results"].val) = Successes(batch.finished)
    /\ Len(summary["failed_urls"].val) = Failures(batch.finished)

\* a list of the summary is as long as the count of the call says exactly
\* when the earlier calls put nothing on it
EqualWhenNothingEarlier(summary) ==
    /\ Len(summary["results"].val) = summary["successful"].val <=> Successes(EarlierCalls) = 0
    /\ Len(summary["failed_urls"].val) = summary["failed"].val <=> Failures(EarlierCalls) = 0
    /\ EarlierCalls = <<>> =>
           /\ Len(summary["results"].val) = summary["successful"].val
           /\ Len(summary["failed_urls"].val) = summary["failed"].val

\* C24: in the summary of every scrape_batch call successful + failed is
\* total_urls and success_rate is 0 for an empty list; results and
\* failed_urls are the lists of the instance, never reset, as long as the
\* successes and failures of all calls so far together; each is as long as
\* the call's own count exactly when no earlier call recorded a success
\* (a failure), as on the first call
C24_SummaryTotals ==
    SummaryReturned =>
        /\ CountsAddUp(batch.summary.val)
        /\ RunningTotals(batch.summary.val)
        /\ EqualWhenNothingEarlier(batch.summary.val)

\* C24 as stated: the lists of a summary are as long as its counts on the
\* first call only
C24_EqualOnFirstCallOnly ==
    (SummaryReturned /\ EarlierCalls # <<>>) =>
        ~ /\ Len(batch.summary.val["results"].val) = batch.summary.val["successful"].val
          /\ Len(batch.summary.val["failed_urls"].val) = batch.summary.val["failed"].val

\* the summary of a second call that saved one product after the first call
\* saved one: results has two entries
C24_Witness ==
    /\ SummaryReturned
    /\ Len(batch.finished) = 2
    /\ batch.summary.val["successful"] = PyInt(1)
    /\ Len(batch.summary.val["results"].val) = 2

\* the summary of a call on an empty list
C24_WitnessEmptyList ==
    /\ SummaryReturned
    /\ batch.urls = <<>>
    /\ batch.summary.val["success_rate"] = PyInt(0)

\* the summary of a second call after a first call that recorded nothing
C24_WitnessNothingEarlier ==
    /\ SummaryReturned
    /\ Len(batch.finished) = 2
    /\ batch.summary.val["successful"] = PyInt(1)
    /\ Len(batch.summary.val["results"].val) = 1
    /\ batch.summary.val["failed_urls"].val = <<>>

---------------------------------------------------------------------------
(* The analyzer on the records of the assembler                            *)

\* an analyze method was called and raised
AnalyzerRaised == analysis.kind = "exception"

\* a record of the list has a text under pricing.current_price
SomePriced == \E k \in DOMAIN products : "current_price" \in DOMAIN products[k].val["pricing"].val

\* C23: the four analyze methods complete without raising on every list of
\* records the assembler emits
C23_AnalyzerAccepts == ~AnalyzerRaised

\* what raises is analyze_pricing, on the lists that have a record with a
\* current price; the other three methods complete on every list
OnlyPricingRaises ==
    /\ AnalyzerRaised => analysis = RaisedIn("analyze_pricing", AttributeError) /\ SomePriced
    /\ (analysis.kind = "dict" /\ "total_products_with_pricing" \in DOMAIN analysis.val) => ~SomePriced

====
